---- MODULE Spec2Model ----
(***************************************************************************)
(* Model of the stateful filters of heka-tsutils-plugins.                  *)
(*                                                                         *)
(* Part 1: lua_filters/dedupe.lua (src/unnamed/part_000).                  *)
(* Part 2: lua/filters/statsd_aggregator.lua.                              *)
(*                                                                         *)
(* Strings are sequences of byte codes, so that string.format, table.sort  *)
(* and table.concat can be computed as Lua computes them.  Field values    *)
(* are string-typed fields, for which "%s" copies the bytes.               *)
(* Timestamps are counted in ticks; the code counts nanoseconds (1e9 per   *)
(* second), the model counts TicksPerSec ticks per second.                 *)
(***************************************************************************)
EXTENDS Integers, Sequences, FiniteSets, TLC

\* ------------------------------------------------------------------ bounds
\* Resolution of the clock: ticks per second (1e9 in the code).
TicksPerSec == 2
\* Largest dedupe_window (seconds) the configuration is drawn from.
MaxWindow == 1
\* Largest Timestamp (ticks) of an ingested record.
MaxTime == 3
\* Most process_message calls of one run.
MaxCalls == 3
\* Longest generated input stream of SpecDoc, and its largest second.
MaxTapeLen == 3
MaxTapeSec == 3
\* Longest generated two-key stream of SpecKeys, and its largest second.
MaxKeyTapeLen == 3
MaxKeyTapeSec == 2
\* Aggregator: most handler calls of a free run, largest generated value,
\* largest tick distance of a free timer_event from the last one, and most
\* leading samples of a generated script.
MaxAggEvents == 3
MaxValue == 2
MaxDelta == 1
MaxSamples == 3
\* Encoders: largest Timestamp (ticks) of an encoded message, largest dedupe_window
\* (seconds), most Encode calls with dedupe off and with dedupe on
MaxEncTime == 2
MaxDedupeFlush == 1
MaxEncCalls == 2
MaxDedupeCalls == 3
\* HTTP encoder: largest flush_count, largest flush_delta (seconds), most calls
MaxFlushCount == 2
MaxFlushDelta == 1
MaxHttpCalls == 4

\* ----------------------------------------------------------------- strings
\* the bytes ":" and "="
ChColon == 58
ChEquals == 61

\* Field names of the modelled records: a tag "h", a tag "k" and the value "v".
FieldH == <<104>>
FieldK == <<107>>
FieldV == <<118>>

\* Field values: the strings "1", "2", "3", "5" and "6".
Str1 == <<49>>
Str2 == <<50>>
Str3 == <<51>>
Str5 == <<53>>
Str6 == <<54>>

FieldNames == {FieldH, FieldK, FieldV}

\* Lua's nil for the global `key` before the first call (no string holds byte 0 here).
NilKey == <<0>>

\* a < b for Lua strings (byte-wise, as strcoll does in the C locale)
RECURSIVE StrLess(_, _)
StrLess(a, b) ==
  IF b = <<>> THEN FALSE
  ELSE IF a = <<>> THEN TRUE
  ELSE IF Head(a) # Head(b) THEN Head(a) < Head(b)
  ELSE StrLess(Tail(a), Tail(b))

\* insert string s into the ascending list l
RECURSIVE InsertSorted(_, _)
InsertSorted(s, l) ==
  IF l = <<>> THEN <<s>>
  ELSE IF StrLess(Head(l), s) THEN <<Head(l)>> \o InsertSorted(s, Tail(l))
  ELSE <<s>> \o l

\* the list left unsorted: what a missing table.sort would leave
SortKeysNoSort(keys) == keys

\* table.sort(keys): the ascending arrangement of the list
RECURSIVE SortKeys(_)
SortKeys(keys) ==
  IF keys = <<>> THEN <<>> ELSE InsertSorted(Head(keys), SortKeys(Tail(keys)))

\* table.concat(keys, ":")
RECURSIVE ConcatKeys(_)
ConcatKeys(keys) ==
  IF keys = <<>> THEN <<>>
  ELSE IF Len(keys) = 1 THEN Head(keys)
  ELSE Head(keys) \o <<ChColon>> \o ConcatKeys(Tail(keys))

\* string.format("%s=%s", k, v)
FormatKV(k, v) == k \o <<ChEquals>> \o v

\* ----------------------------------------------------------- configuration
\* variant_fields = "v"
variant_fields == {FieldV}
\* msg_type default
msg_type == "dedupe"

VARIABLES
  dedupe_window,   \* config: seconds
  dedupe_key,      \* config dedupe_key_field: a field name, or NilKey when unset
  buffer,          \* key -> [message, data, timestamp, skipped]
  dedupe_count,
  buffer_size,
  key,             \* the Lua global `key` set by process_message
  injected,        \* the messages the last call handed to inject_message, in order
  lastOp,          \* the handler that ran last
  msg,             \* the record the last process_message call read
  calls,           \* number of process_message calls so far
  nSuppressed,     \* number of calls of the enabled filter that injected nothing
  prev,            \* key -> the last record read for it, whether it was injected yet,
                   \*        and the Timestamp of the last message injected for it
  tape,            \* SpecDoc: the input stream still to be delivered is tape[pos+1..]
  pos,
  emitted,         \* SpecDoc: every message injected so far, in order
  send_idle,       \* aggregator config send_idle_stats
  calc_rates,      \* aggregator config calculate_rates
  self_stats,      \* the self-statistics are sent: always in statsd_aggregator.lua,
                   \* under the config send_self_stats in its later variant
  buckets,         \* aggregator: metric name -> [Sampling, Modifier, Value, Metric]
  lastTime,        \* aggregator: ns of the last timer_event that did work (ticks)
  metrics_received,
  sandbox,         \* "running", or "terminated" after a Lua runtime error
  flushed,         \* what the last aggregator call handed to inject_message
  events,          \* every aggregator handler call so far, in order
  counted,         \* per counter name, the sum of the .count values injected so far
  script,          \* SpecAgg: the calls to make, or <<>> for any calls
  encCfg,          \* configuration of the Go encoder
  luaCfg,          \* configuration of the Lua encoder
  dedupeBuffer,    \* Go encoder: bufkey -> [data, skipped, ts, val]
  encMsg,          \* the message the last encoder call read
  encOut,          \* what the last encoder call returned
  encCalls,        \* number of encoder calls so far
  decPrefix,       \* the decoder's tagname_prefix
  line,            \* the payload handed to the decoder
  decoded,         \* what Decode returned for it
  httpCfg,         \* configuration of the HTTP encoder
  httpBuffer,      \* HTTP encoder: the global `buffer`
  last_flush,      \* HTTP encoder: the global `last_flush` (ticks)
  httpOut,         \* what the last HTTP encoder call returned and injected
  httpCalls,       \* number of HTTP encoder calls so far
  httpAccepted,    \* every message the HTTP encoder added to its buffer, in order
  httpSent         \* the objects of every payload it injected, in order

aggVars == <<send_idle, calc_rates, self_stats, buckets, lastTime, metrics_received,
             sandbox, flushed, events, counted, script>>

dedupeVars == <<dedupe_window, dedupe_key, buffer, dedupe_count, buffer_size, key,
                injected, lastOp, msg, calls, nSuppressed, prev, tape, pos, emitted>>

codecVars == <<encCfg, luaCfg, dedupeBuffer, encMsg, encOut, encCalls, decPrefix, line, decoded>>

httpVars == <<httpCfg, httpBuffer, last_flush, httpOut, httpCalls, httpAccepted, httpSent>>

vars == <<dedupeVars, aggVars, codecVars, httpVars>>

EmptyMap == [x \in {} |-> 0]

\* f restricted to the names in S
Restrict(f, S) == [n \in DOMAIN f \cap S |-> f[n]]

\* the `variants` table built by the read_next_field loop
Variants(fields) == Restrict(fields, variant_fields)

\* the `invariants` table built by the read_next_field loop
Invariants(fields) == Restrict(fields, FieldNames \ variant_fields)

\* all orders in which pairs() may walk a table with the names S
Orders(S) == {o \in [1..Cardinality(S) -> S] : \A i, j \in 1..Cardinality(S) : i # j => o[i] # o[j]}

\* the key generated from the invariants, walked by pairs() in the given order
DeriveKey(inv, order) ==
  ConcatKeys(SortKeys([i \in 1..Len(order) |-> FormatKV(order[i], inv[order[i]])]))

\* one key for every record
MessageKeyShared(fields, keyField, order) == NilKey

\* the dedupe key of a record
MessageKey(fields, keyField, order) ==
  IF keyField # NilKey /\ keyField \in DOMAIN fields
  THEN fields[keyField]
  ELSE DeriveKey(Invariants(fields), order)

\* the new message generated from the record read
NewMessage(m) == [Timestamp |-> m.Timestamp, Type |-> msg_type, Fields |-> m.Fields]

\* a comparison of the field names alone, not of the values
MatchNamesOnly(stored, variants) ==
  \A k \in DOMAIN variants : k \in DOMAIN stored.data

\* the loop comparing the previous variants with the current ones
Match(stored, variants) ==
  \A k \in DOMAIN variants : k \in DOMAIN stored.data /\ stored.data[k] = variants[k]

\* the window, in ticks
WindowTicks(window) == window * TicksPerSec

\* a window test that also dedupes a record exactly one window after the stored one
SuppressInclusive(stored, variants, ts, window) ==
  Match(stored, variants) /\ ts - stored.timestamp <= WindowTicks(window)

\* "if they match and we're inside the window, dedupe"
Suppress(stored, variants, ts, window) ==
  Match(stored, variants) /\ ts - stored.timestamp < WindowTicks(window)

\* the previous message is flushed whether or not it was withheld
FlushPreviousAlways(stored, variants, ts, window) == TRUE

\* the previous message is never flushed
FlushPreviousNever(stored, variants, ts, window) == FALSE

\* the previous message is flushed on a changed value only
FlushPreviousOnChange(stored, variants, ts, window) ==
  ~Match(stored, variants) /\ stored.skipped

\* the previous message is flushed on window expiry only
FlushPreviousOnExpiry(stored, variants, ts, window) ==
  stored.skipped /\ ts - stored.timestamp >= WindowTicks(window)

\* "flush the previous message too"
FlushPrevious(stored, variants, ts, window) ==
  \/ (~Match(stored, variants) /\ stored.skipped)
  \/ (stored.skipped /\ ts - stored.timestamp >= WindowTicks(window))

\* a suppressed point that restarts the window clock
SuppressedEntryResetClock(stored, message, variants) ==
  [message |-> message, data |-> variants, timestamp |-> message.Timestamp, skipped |-> TRUE]

\* the state stored for a suppressed point
SuppressedEntry(stored, message, variants) ==
  [message |-> message, data |-> variants, timestamp |-> stored.timestamp, skipped |-> TRUE]

\* an emitted point stored as if it had been withheld
EmittedEntryAsSkipped(message, variants) ==
  [message |-> message, data |-> variants, timestamp |-> message.Timestamp, skipped |-> TRUE]

\* the state stored for an emitted point
EmittedEntry(message, variants) ==
  [message |-> message, data |-> variants, timestamp |-> message.Timestamp, skipped |-> FALSE]

Put(b, k, e) == [x \in DOMAIN b \cup {k} |-> IF x = k THEN e ELSE b[x]]

\* a buffer_size that counts every emitted record
NextBufferSizeAlways(b, k, size) == size + 1

\* buffer_size after storing under key k
NextBufferSize(b, k, size) == IF k \in DOMAIN b THEN size ELSE size + 1

\* dedupe_count after a suppressed point
NextDedupeCount(count) == count + 1

\* a disabled filter that passes records through
EnabledAlways(window) == TRUE

\* "if dedupe_window > 0 and variant_fields_str" (the string is never nil)
Enabled(window) == window > 0

\* process_message() on record m, pairs() walking the invariants in `order`
ProcessMessage(m, order) ==
  /\ lastOp' = "process_message"
  /\ msg' = m
  /\ IF Enabled(dedupe_window)
     THEN LET variants == Variants(m.Fields)
              k == MessageKey(m.Fields, dedupe_key, order)
              message == NewMessage(m)
          IN /\ key' = k
             /\ IF k \in DOMAIN buffer /\ Suppress(buffer[k], variants, m.Timestamp, dedupe_window)
                THEN /\ buffer' = [buffer EXCEPT ![k] = SuppressedEntry(buffer[k], message, variants)]
                     /\ dedupe_count' = NextDedupeCount(dedupe_count)
                     /\ injected' = <<>>
                     /\ UNCHANGED buffer_size
                ELSE /\ injected' =
                          (IF k \in DOMAIN buffer
                              /\ FlushPrevious(buffer[k], variants, m.Timestamp, dedupe_window)
                           THEN <<buffer[k].message>> ELSE <<>>) \o <<message>>
                     /\ buffer_size' = NextBufferSize(buffer, k, buffer_size)
                     /\ buffer' = Put(buffer, k, EmittedEntry(message, variants))
                     /\ UNCHANGED dedupe_count
     ELSE /\ injected' = <<>>
          /\ UNCHANGED <<buffer, dedupe_count, buffer_size, key>>

\* the summary message of timer_event
SummaryMsg(metric, value) == [Type |-> msg_type, Fields |-> [Metric |-> metric, Value |-> value]]

NilMsg == [Timestamp |-> 0, Fields |-> EmptyMap]

\* timer_event(ns)
timer_event ==
  /\ lastOp # "timer_event"
  /\ lastOp' = "timer_event"
  /\ injected' = << SummaryMsg("heka.dedupe.saved", dedupe_count),
                    SummaryMsg("heka.dedupe.buffer_size", buffer_size) >>
  /\ msg' = NilMsg
  /\ UNCHANGED <<dedupe_window, dedupe_key, buffer, dedupe_count, buffer_size, key,
                 calls, nSuppressed, prev, tape, pos, emitted>>
  /\ UNCHANGED <<aggVars, codecVars, httpVars>>

\* ------------------------------------------------------- observation
\* What an observer of the handler's input and output records, without reading
\* the filter's state: per key (the global `key` after the call) the last record
\* read, whether it has been injected, and the Timestamp of the last injection.

Range(s) == {s[i] : i \in DOMAIN s}

Observe(m) ==
  /\ nSuppressed' = IF dedupe_window > 0 /\ injected' = <<>>
                    THEN nSuppressed + 1 ELSE nSuppressed
  /\ prev' = IF dedupe_window > 0
             THEN Put(prev, key',
                      [message |-> NewMessage(m),
                       emitted |-> NewMessage(m) \in Range(injected'),
                       lastEmitTs |-> IF injected' # <<>>
                                      THEN injected'[Len(injected')].Timestamp
                                      ELSE IF key' \in DOMAIN prev
                                      THEN prev[key'].lastEmitTs ELSE -1])
             ELSE prev

\* ============================================================ aggregator
\* Part 2: lua/filters/statsd_aggregator.lua.
\*
\* Lua numbers that come out of a division are written as fractions in lowest
\* terms [n, d] with d > 0; every number read from a record is an integer.
\* A Lua table is a function from its non-nil integer keys to its elements; an
\* element is a number or Lua's `true`.  A Lua runtime error ends the plugin:
\* the host terminates a sandbox whose handler raised.

RECURSIVE GCD(_, _)
GCD(a, b) == IF b = 0 THEN a ELSE GCD(b, a % b)

Abs(x) == IF x < 0 THEN -x ELSE x

\* the number n/d (d # 0) in lowest terms
Frac(n, d) ==
  LET g == GCD(Abs(n), Abs(d))
      s == IF d < 0 THEN -1 ELSE 1
  IN [n |-> (s * n) \div g, d |-> (s * d) \div g]

FInt(i) == [n |-> i, d |-> 1]

FAdd(a, b) == Frac(a.n * b.d + b.n * a.d, a.d * b.d)

FMul(a, b) == Frac(a.n * b.n, a.d * b.d)

\* a / b for b # 0
FDiv(a, b) == Frac(a.n * b.d, a.d * b.n)

\* math.floor(a)
Floor(a) == a.n \div a.d

\* a table element: the number v, or true
Num(v) == [isNum |-> TRUE, v |-> v]
LuaTrue == [isNum |-> FALSE, v |-> 0]

\* the value of Fields[value_field] of a bucket: a number or a table
NumValue(f) == [isTable |-> FALSE, num |-> f, tab |-> EmptyMap]
TableValue(t) == [isTable |-> TRUE, num |-> FInt(0), tab |-> t]

\* #t: "any integer index n such that t[n] is not nil and t[n+1] is nil;
\* moreover, if t[1] is nil, n can be zero" (unique for a list without holes)
Borders(t) ==
  {n \in DOMAIN t : n >= 1 /\ n + 1 \notin DOMAIN t}
    \cup (IF 1 \in DOMAIN t THEN {} ELSE {0})

\* the lengths #Value can take (a number has no length: see the callers)
BordersOf(value) == IF value.isTable THEN Borders(value.tab) ELSE {0}

\* global_prefix is left at its default ""
global_prefix == ""

\* percentiles default "50,75,90,99", split by gmatch("[%d.]+")
percentiles == <<50, 75, 90, 99>>

\* the name prefix a new bucket gets for its modifier
KindPrefix(modifier) ==
  CASE modifier = "ms" -> "timers."
    [] modifier = "g" -> "gauges."
    [] modifier = "s" -> "sets."
    [] OTHER -> "counters."

\* a counter that ignores the sample rate
ContributionUnsampled(value, sampling) == FInt(value)

\* value * (1/sampling)
Contribution(value, sampling) == FMul(FInt(value), FDiv(FInt(1), sampling))

\* a message name: the bucket's Fields[metric_field] followed by a suffix
MetricName(base, stat, pct) == [base |-> base, stat |-> stat, pct |-> pct]

\* the accumulator a new bucket starts with
NewValue(obs) ==
  CASE obs.modifier = "ms" -> TableValue(1 :> Num(obs.value))
    [] obs.modifier = "g" -> NumValue(FInt(obs.value))
    [] obs.modifier = "s" -> TableValue(obs.value :> LuaTrue)
    [] OTHER -> NumValue(Contribution(obs.value, obs.sampling))

\* "if not buckets[metric] then ... end": the bucket created for obs
NewBucket(obs) ==
  [Sampling |-> obs.sampling,
   Modifier |-> obs.modifier,
   Value |-> NewValue(obs),
   Metric |-> <<global_prefix, KindPrefix(obs.modifier), obs.metric>>]

\* the update of an existing bucket raises: the branch is chosen by the
\* record's modifier, "#" and indexing need a table, "+" needs a number
UpdateRaises(value, obs) ==
  CASE obs.modifier = "ms" -> ~value.isTable
    [] obs.modifier = "g" -> FALSE
    [] obs.modifier = "s" -> ~value.isTable
    [] OTHER -> value.isTable

\* the accumulator of an existing bucket after obs, `border` being #Value
UpdatedValue(value, obs, border) ==
  CASE obs.modifier = "ms" -> TableValue(Put(value.tab, border + 1, Num(obs.value)))
    [] obs.modifier = "g" -> NumValue(FInt(obs.value))
    [] obs.modifier = "s" -> TableValue(Put(value.tab, obs.value, LuaTrue))
    [] OTHER -> NumValue(FAdd(value.num, Contribution(obs.value, obs.sampling)))

\* an update that also takes the record's modifier
UpdatedBucketRekind(b, obs, border) ==
  [b EXCEPT !.Value = UpdatedValue(b.Value, obs, border), !.Modifier = obs.modifier]

\* the "else" of "if not buckets[metric]": only Fields[value_field] is assigned
UpdatedBucket(b, obs, border) == [b EXCEPT !.Value = UpdatedValue(b.Value, obs, border)]

\* "if not metric or not value or not modifier then return -1 end"
\* (a nil name or modifier is written as the empty string)
Malformed(obs) == obs.metric = "" \/ ~obs.hasValue \/ obs.modifier = ""

\* what a call that injects nothing leaves in `flushed`: the handler, its
\* return (0, -1, or 1 for a runtime error), whether a flush did its work, the
\* messages injected per bucket, the self-statistics messages, and all of them
\* in the order of injection (one set per bucket: pairs(stats) has no order)
NoOutput(op, status) ==
  [op |-> op, status |-> status, ran |-> FALSE, records |-> EmptyMap, summary |-> <<>>,
   sent |-> <<>>]

\* process_message() on the record obs
AggProcessMessage(obs) ==
  /\ events' = Append(events, obs)
  /\ IF Malformed(obs)
     THEN /\ flushed' = NoOutput("process_message", -1)
          /\ UNCHANGED <<buckets, metrics_received, sandbox>>
     ELSE IF obs.metric \notin DOMAIN buckets
     THEN /\ buckets' = Put(buckets, obs.metric, NewBucket(obs))
          /\ metrics_received' = metrics_received + 1
          /\ flushed' = NoOutput("process_message", 0)
          /\ UNCHANGED sandbox
     ELSE IF UpdateRaises(buckets[obs.metric].Value, obs)
     THEN /\ sandbox' = "terminated"
          /\ flushed' = NoOutput("process_message", 1)
          /\ UNCHANGED <<buckets, metrics_received>>
     ELSE /\ \E border \in BordersOf(buckets[obs.metric].Value) :
               buckets' = [buckets EXCEPT ![obs.metric] =
                             UpdatedBucket(buckets[obs.metric], obs, border)]
          /\ metrics_received' = metrics_received + 1
          /\ flushed' = NoOutput("process_message", 0)
          /\ UNCHANGED sandbox
  /\ UNCHANGED <<send_idle, calc_rates, self_stats, lastTime, script, counted>>

\* insert the number x into the ascending list l
RECURSIVE InsertNum(_, _)
InsertNum(x, l) ==
  IF l = <<>> THEN <<x>>
  ELSE IF Head(l) < x THEN <<Head(l)>> \o InsertNum(x, Tail(l))
  ELSE <<x>> \o l

\* table.sort(timers)
RECURSIVE SortNums(_)
SortNums(l) == IF l = <<>> THEN <<>> ELSE InsertNum(Head(l), SortNums(Tail(l)))

\* cumVals: cumVals[i] = timers[1] + ... + timers[i]
RECURSIVE CumVals(_)
CumVals(l) ==
  IF l = <<>> THEN <<>>
  ELSE LET front == CumVals(SubSeq(l, 1, Len(l) - 1))
       IN Append(front, (IF front = <<>> THEN 0 ELSE front[Len(front)]) + l[Len(l)])

\* elapsedTime / 1e9
ElapsedSeconds(elapsed) == Frac(elapsed, TicksPerSec)

\* an index that is never above 0
PercentileIndexNone(count, pct) == 0

\* an index that rounds the other way
PercentileIndexCeil(count, pct) == count - ((100 - pct) * count + 99) \div 100

\* an index counted from the other end of the sample list
PercentileIndexMirrored(count, pct) ==
  1 + Floor(FAdd(FMul(Frac(100 - pct, 100), FInt(count)), Frac(1, 2)))

\* inc = count - math.floor(((100 - pct) / 100) * count + 0.5)
PercentileIndex(count, pct) ==
  count - Floor(FAdd(FMul(Frac(100 - pct, 100), FInt(count)), Frac(1, 2)))

\* the stats table of a histogram with the sorted samples `timers`
TimerStats(timers, elapsed) ==
  LET count == Len(timers)
      cumVals == CumVals(timers)
      sum == cumVals[count]
      Stat(stat, pct, value) == [stat |-> stat, pct |-> pct, value |-> value]
      Pct(p) == LET inc == PercentileIndex(count, p)
                IN IF inc > 0
                   THEN { Stat(".mean_", p, Frac(cumVals[inc], inc)),
                          Stat(".sum_", p, FInt(cumVals[inc])),
                          Stat(".upper_", p, FInt(timers[inc])) }
                   ELSE {}
  IN { Stat(".count", 0, FInt(count)),
       Stat(".lower", 0, FInt(timers[1])),
       Stat(".upper", 0, FInt(timers[count])),
       Stat(".sum", 0, FInt(sum)),
       Stat(".mean", 0, Frac(sum, count)) }
     \cup (IF calc_rates
           THEN {Stat(".rate", 0, FDiv(FInt(count), ElapsedSeconds(elapsed)))}
           ELSE {})
     \cup (IF count > 1 /\ Len(percentiles) > 0
           THEN UNION { Pct(percentiles[i]) : i \in DOMAIN percentiles }
           ELSE {})

\* one injected message
Record(metric, value) == [Metric |-> metric, Value |-> value]

\* the elements 1..n of the table are all numbers (table.sort and the
\* summation of cumVals raise on nil and on true)
IsNumList(t, n) == \A i \in 1..n : i \in DOMAIN t /\ t[i].isNum

\* a histogram that keeps its samples after the flush
TimerAfterFlushKeep(value) == value

\* Fields[value_field] of a histogram bucket after an idle-mode flush
TimerAfterFlush(value) == TableValue(EmptyMap)

\* a counter that keeps its sum after the flush
CounterAfterFlushKeep(value) == value

\* Fields[value_field] of a counter bucket after an idle-mode flush
CounterAfterFlush(value) == NumValue(FInt(0))

\* Fields[value_field] of a set bucket after an idle-mode flush
SetAfterFlush(value) == TableValue(EmptyMap)

\* a gauge that is cleared by the flush
GaugeAfterFlushZero(value) == NumValue(FInt(0))

\* Fields[value_field] of a gauge bucket after a flush
GaugeAfterFlush(value) == value

\* the pass of timer_event's loop over one bucket, n being #Value:
\* whether it raises, the messages it injects, and the bucket's accumulator
\* afterwards when send_idle is set.  A "c" or "g" bucket always holds a
\* number: every update that would store a table in it raises first.
FlushBucket(b, elapsed, n) ==
  LET Result(raises, recs, value) == [raises |-> raises, recs |-> recs, value |-> value]
      Raises == Result(TRUE, {}, b.Value)
  IN IF b.Modifier = "ms" /\ ~b.Value.isTable
     THEN Raises
     ELSE IF b.Modifier = "ms" /\ n > 0
     THEN IF ~IsNumList(b.Value.tab, n)
          THEN Raises
          ELSE LET timers == SortNums([i \in 1..n |-> b.Value.tab[i].v])
               IN Result(FALSE,
                         { Record(MetricName(b.Metric, s.stat, s.pct), s.value) :
                             s \in TimerStats(timers, elapsed) },
                         TimerAfterFlush(b.Value))
     ELSE IF b.Modifier = "c"
     THEN Result(FALSE,
                 { Record(MetricName(b.Metric, ".count", 0), b.Value.num) }
                   \cup (IF calc_rates
                         THEN { Record(MetricName(b.Metric, ".rate", 0),
                                       FDiv(b.Value.num, ElapsedSeconds(elapsed))) }
                         ELSE {}),
                 CounterAfterFlush(b.Value))
     ELSE IF b.Modifier = "s"
     THEN IF ~b.Value.isTable
          THEN Raises
          ELSE Result(FALSE,
                      { Record(MetricName(b.Metric, "", 0),
                               FInt(Cardinality(DOMAIN b.Value.tab))) },
                      SetAfterFlush(b.Value))
     ELSE IF b.Modifier = "g"
     THEN Result(FALSE, { Record(MetricName(b.Metric, "", 0), b.Value.num) },
                 GaugeAfterFlush(b.Value))
     ELSE Result(FALSE, {}, b.Value)

\* a flush that forgets no bucket
BucketsAfterFlushKeep(idle, after) == after

\* "if not send_idle then buckets = {} end"
BucketsAfterFlush(idle, after) == IF idle THEN after ELSE EmptyMap

\* a received-count that restarts at every flush
ReceivedAfterFlushReset(received) == 0

\* metrics_received is not assigned by timer_event
ReceivedAfterFlush(received) == received

\* a flush that runs whatever the elapsed time
ZeroElapsedNever(elapsed) == FALSE

\* "if elapsedTime == 0 then return end"
ZeroElapsed(elapsed) == elapsed = 0

\* every length some bucket's accumulator can take
AllBorders(bs) == UNION { BordersOf(bs[m].Value) : m \in DOMAIN bs }

\* a filter that never sends its self-statistics
SelfStatsNever(bucket_count, received) == <<>>

\* the self-statistics messages: unconditional in statsd_aggregator.lua,
\* "if self_stats then ... end" in its later variant
SelfStats(bucket_count, received) ==
  IF ~self_stats THEN <<>> ELSE
  << Record(MetricName(<<global_prefix, "numStats">>, "", 0), FInt(bucket_count)),
     Record(MetricName(<<global_prefix, "metrics_received">>, "", 0), FInt(received)) >>

\* the sum of the values of a set of injected messages
RECURSIVE SumValues(_)
SumValues(recs) ==
  IF recs = {} THEN FInt(0)
  ELSE LET r == CHOOSE x \in recs : TRUE
       IN FAdd(r.Value, SumValues(recs \ {r}))

\* the "counters.<name>.count" messages among those injected for a bucket
CountMessages(recs) ==
  {r \in recs : r.Metric.stat = ".count" /\ r.Metric.base[2] = KindPrefix("c")}

\* the running sums of the injected "counters.<name>.count" values after a
\* timer_event that injected records[m] for each bucket m
CountedAfter(records) ==
  [m \in DOMAIN counted \cup {n \in DOMAIN records : CountMessages(records[n]) # {}} |->
     FAdd(IF m \in DOMAIN counted THEN counted[m] ELSE FInt(0),
          IF m \in DOMAIN records THEN SumValues(CountMessages(records[m])) ELSE FInt(0))]

\* timer_event(ns)
AggTimerEvent(e) ==
  LET elapsedTime == e.ns - lastTime
  IN /\ events' = Append(events, e)
     /\ IF ZeroElapsed(elapsedTime)
        THEN /\ flushed' = NoOutput("timer_event", 0)
             /\ UNCHANGED <<buckets, lastTime, metrics_received, sandbox>>
        ELSE /\ lastTime' = e.ns
             /\ \E order \in Orders(DOMAIN buckets),
                   border \in { f \in [DOMAIN buckets -> AllBorders(buckets)] :
                                  \A m \in DOMAIN buckets : f[m] \in BordersOf(buckets[m].Value) } :
                  LET res == [m \in DOMAIN buckets |->
                                FlushBucket(buckets[m], elapsedTime, border[m])]
                  IN IF \E m \in DOMAIN buckets : res[m].raises
                     THEN /\ sandbox' = "terminated"
                          /\ flushed' = NoOutput("timer_event", 1)
                          /\ UNCHANGED <<buckets, metrics_received>>
                     ELSE /\ flushed' =
                               [op |-> "timer_event", status |-> 0, ran |-> TRUE,
                                records |-> [m \in DOMAIN buckets |-> res[m].recs],
                                summary |-> SelfStats(Len(order), metrics_received),
                                sent |-> [i \in DOMAIN order |-> res[order[i]].recs]
                                           \o [i \in DOMAIN SelfStats(Len(order), metrics_received) |->
                                                 {SelfStats(Len(order), metrics_received)[i]}]]
                          /\ buckets' = BucketsAfterFlush(send_idle,
                                          [m \in DOMAIN buckets |->
                                             [buckets[m] EXCEPT !.Value = res[m].value]])
                          /\ metrics_received' = ReceivedAfterFlush(metrics_received)
                          /\ UNCHANGED sandbox
     /\ counted' = CountedAfter(flushed'.records)
     /\ UNCHANGED <<send_idle, calc_rates, self_stats, script>>

\* the aggregator before its first call (lastTime = os.time() * 1e9 is tick 0)
AggStart ==
  /\ buckets = EmptyMap
  /\ lastTime = 0
  /\ metrics_received = 0
  /\ sandbox = "running"
  /\ flushed = NoOutput("init", 0)
  /\ events = <<>>
  /\ counted = EmptyMap

\* the aggregator while the dedupe filter is run
AggIdle ==
  /\ send_idle = FALSE
  /\ calc_rates = FALSE
  /\ self_stats = TRUE
  /\ AggStart
  /\ script = <<>>

\* ======================================================== OpenTSDB codecs
\* Part 3: the Go encoder OpenTsdbRawEncoder (src/unnamed/part_003, from line
\* 133), the Go decoder OpenTsdbRawDecoder (src/README.md, from line 94) and
\* the Lua encoder opentsdb_raw.lua (src/unnamed/part_003, to line 117).
\*
\* Strings are sequences of byte codes.  A field value is a string or an
\* integer; Fields[Metric] is a string field, as both decoders of the
\* repository produce it.  ts_from_message keeps its default, true.

\* "put ", " ", "\n", "=", ".", ":" and the field names "Metric" and "Value"
StrPut == <<112, 117, 116, 32>>
StrSpace == <<32>>
StrNewline == <<10>>
StrEq == <<61>>
StrDot == <<46>>
StrMetric == <<77, 101, 116, 114, 105, 99>>
StrValue == <<86, 97, 108, 117, 101>>

\* a field value: a string, an int64, or a float64 num/den
StrVal(s) == [kind |-> "string", str |-> s, num |-> 0, den |-> 1]
IntVal(i) == [kind |-> "int", str |-> <<>>, num |-> i, den |-> 1]
FloatVal(n, d) == [kind |-> "float", str |-> <<>>, num |-> Frac(n, d).n, den |-> Frac(n, d).d]
\* the nil that GetFieldValue returns for a field the message lacks
NilVal == [kind |-> "nil", str |-> <<>>, num |-> 0, den |-> 1]

\* the decimal digits of n >= 0
RECURSIVE Digits(_)
Digits(n) == IF n < 10 THEN <<48 + n>> ELSE Append(Digits(n \div 10), 48 + (n % 10))

\* fmt.Sprint of an integer
Itoa(n) == IF n < 0 THEN <<45>> \o Digits(-n) ELSE Digits(n)

\* fmt.Sprint(v), "%v" and "%s" of a field value
Sprint(v) ==
  IF v.kind = "string" THEN v.str
  ELSE IF v.kind = "nil" THEN <<60, 110, 105, 108, 62>>   \* "<nil>"
  ELSE Itoa(v.num)

\* strings.HasPrefix(s, p)
HasPrefix(s, p) == Len(p) <= Len(s) /\ SubSeq(s, 1, Len(p)) = p

\* strings.Index(s, sep) + 1 for a non-empty sep, 0 when sep does not occur
IndexOf(s, sep) ==
  LET I == {i \in 1..(Len(s) - Len(sep) + 1) : SubSeq(s, i, i + Len(sep) - 1) = sep}
  IN IF I = {} THEN 0 ELSE CHOOSE i \in I : \A j \in I : i <= j

\* strings.Split(s, sep) for a non-empty sep
RECURSIVE Split(_, _)
Split(s, sep) ==
  LET i == IndexOf(s, sep)
  IN IF i = 0 THEN <<s>>
     ELSE <<SubSeq(s, 1, i - 1)>> \o Split(SubSeq(s, i + Len(sep), Len(s)), sep)

\* strings.SplitN(s, sep, 2) for a non-empty sep
SplitN2(s, sep) ==
  LET i == IndexOf(s, sep)
  IN IF i = 0 THEN <<s>>
     ELSE <<SubSeq(s, 1, i - 1), SubSeq(s, i + Len(sep), Len(s))>>

\* strings.TrimLeft(s, cutset): drops every leading byte that occurs in cutset
RECURSIVE TrimLeft(_, _)
TrimLeft(s, cutset) ==
  IF s # <<>> /\ Head(s) \in Range(cutset) THEN TrimLeft(Tail(s), cutset) ELSE s

\* the "k=v" strings of a configured tag list that split into a non-empty
\* key and a non-empty value, as <<k, v>> pairs in list order
RECURSIVE StaticPairs(_)
StaticPairs(list) ==
  IF list = <<>> THEN <<>>
  ELSE LET kv == SplitN2(Head(list), StrEq)
       IN (IF Len(kv) = 2 /\ kv[1] # <<>> /\ kv[2] # <<>> THEN <<kv>> ELSE <<>>)
            \o StaticPairs(Tail(list))

\* Init: the map built from a configured tag list (a later entry replaces an
\* earlier one with the same key)
StaticTags(list) ==
  LET ps == StaticPairs(list)
  IN [k \in {ps[i][1] : i \in DOMAIN ps} |->
        LET last == CHOOSE i \in DOMAIN ps : ps[i][1] = k /\ \A j \in DOMAIN ps : ps[j][1] = k => j <= i
        IN StrVal(ps[last][2])]

\* Init: "if TagNamePrefix != "" && TagValuePrefix == "" { TagValuePrefix = "." }"
ValuePrefix(cfg) ==
  IF cfg.TagNamePrefix # <<>> /\ cfg.TagValuePrefix = <<>> THEN StrDot ELSE cfg.TagValuePrefix

\* Message.GetFieldValue(name): the value of the first field of that name
HasField(m, name) == \E i \in DOMAIN m.Fields : m.Fields[i].name = name
FieldValue(m, name) ==
  IF HasField(m, name)
  THEN m.Fields[CHOOSE i \in DOMAIN m.Fields :
                  m.Fields[i].name = name
                    /\ \A j \in DOMAIN m.Fields : m.Fields[j].name = name => i <= j].value
  ELSE NilVal

\* the metric name written to the line, and the embedded tag strings
MetricParts(cfg, metric) ==
  IF cfg.TagNamePrefix # <<>> THEN Split(metric, cfg.TagNamePrefix) ELSE <<metric>>

\* the embedded tags that split into a non-empty key and value, as pairs
RECURSIVE EmbeddedPairs(_, _)
EmbeddedPairs(tags, sep) ==
  IF tags = <<>> THEN <<>>
  ELSE LET kv == SplitN2(Head(tags), sep)
       IN (IF Len(kv) = 2 /\ kv[1] # <<>> /\ kv[2] # <<>>
           THEN << <<kv[1], StrVal(kv[2])>> >> ELSE <<>>)
            \o EmbeddedPairs(Tail(tags), sep)

\* the tags taken from the message fields, as pairs in field order
RECURSIVE FieldPairs(_, _)
FieldPairs(fields, prefix) ==
  IF fields = <<>> THEN <<>>
  ELSE LET k == Head(fields).name
       IN (IF HasPrefix(k, prefix) /\ k # StrMetric /\ k # StrValue
           THEN << <<TrimLeft(k, prefix), Head(fields).value>> >> ELSE <<>>)
            \o FieldPairs(Tail(fields), prefix)

\* "tagMap[k] = v; tagKeys = append(tagKeys, k)" for each pair
RECURSIVE AddTags(_, _)
AddTags(acc, pairs) ==
  IF pairs = <<>> THEN acc
  ELSE AddTags([map |-> Put(acc.map, Head(pairs)[1], Head(pairs)[2]),
                keys |-> Append(acc.keys, Head(pairs)[1])], Tail(pairs))

\* "for k, v := range oe.missingTags": a tag is added only when absent
RECURSIVE AddMissing(_, _, _)
AddMissing(acc, tags, order) ==
  IF order = <<>> THEN acc
  ELSE AddMissing(IF Head(order) \in DOMAIN acc.map THEN acc
                  ELSE [map |-> Put(acc.map, Head(order), tags[Head(order)]),
                        keys |-> Append(acc.keys, Head(order))],
                  tags, Tail(order))

\* "for k, v := range oe.overrideTags": the value is always set
RECURSIVE AddOverride(_, _, _)
AddOverride(acc, tags, order) ==
  IF order = <<>> THEN acc
  ELSE AddOverride([map |-> Put(acc.map, Head(order), tags[Head(order)]),
                    keys |-> IF Head(order) \in DOMAIN acc.map THEN acc.keys
                             ELSE Append(acc.keys, Head(order))],
                   tags, Tail(order))

\* tagString: " k=v" for every entry of tagKeys, v being tagMap[k]
RECURSIVE TagString(_, _)
TagString(map, keys) ==
  IF keys = <<>> THEN <<>>
  ELSE StrSpace \o Head(keys) \o StrEq \o Sprint(map[Head(keys)]) \o TagString(map, Tail(keys))

\* tagMap and tagKeys of a message, the two configured maps being walked in
\* the orders mOrder and oOrder (the iteration order of a Go map is not fixed)
Tags(cfg, m, mOrder, oOrder) ==
  LET parts == MetricParts(cfg, FieldValue(m, StrMetric).str)
      embedded == AddTags([map |-> EmptyMap, keys |-> <<>>],
                          EmbeddedPairs(Tail(parts), ValuePrefix(cfg)))
      fromFields == IF cfg.FieldsToTags
                    THEN AddTags(embedded, FieldPairs(m.Fields, cfg.TagNamePrefix))
                    ELSE embedded
      missing == AddMissing(fromFields, StaticTags(cfg.AddTagsIfMissing), mOrder)
  IN AddOverride(missing, StaticTags(cfg.AddTagsOverride), oOrder)

\* timestamp.Unix(): whole seconds of the message Timestamp
UnixSeconds(ts) == ts \div TicksPerSec

\* buf: the line of a message that carries Metric and Value
Line(cfg, m, tagString) ==
  StrPut \o MetricParts(cfg, FieldValue(m, StrMetric).str)[1] \o StrSpace
    \o Itoa(UnixSeconds(m.Timestamp)) \o StrSpace
    \o Sprint(FieldValue(m, StrValue)) \o tagString \o StrNewline

\* bufkey = fmt.Sprintf("%s:%s", metric, tagString)
BufKey(m, tagString) == FieldValue(m, StrMetric).str \o <<ChColon>> \o tagString

\* a dedupe that is on whatever the window
DedupeOnAlways(cfg) == TRUE

\* "if oe.config.DedupeFlush > 0"
DedupeOn(cfg) == cfg.DedupeFlush > 0

\* "val == value && timestamp.UnixNano() - ts < DedupeFlush * 1e9"
Withhold(e, value, ts, cfg) == e.val = value /\ ts - e.ts < cfg.DedupeFlush * TicksPerSec

\* "(skipped || (skipped && ts - e.ts >= DedupeFlush * 1e9)) && val != value"
SendPrevious(e, value, ts, cfg) ==
  (e.skipped \/ (e.skipped /\ ts - e.ts >= cfg.DedupeFlush * TicksPerSec)) /\ e.val # value

\* a missing Value that goes unnoticed
EncodeFailsOnMetricOnly(m) == ~HasField(m, StrMetric)

\* "if !ok { ... return nil, err }" for Metric and for Value
EncodeFails(m) == ~HasField(m, StrMetric) \/ ~HasField(m, StrValue)

\* what Decode returns: packs (the one record) and err, or the fault of a
\* call that did not return
NotDecoded == [status |-> "none", record |-> [Timestamp |-> 0, Fields |-> <<>>]]
Failed(status) == [status |-> status, record |-> [Timestamp |-> 0, Fields |-> <<>>]]

\* what Encode returns: output bytes (<<>> for nil) and whether err is set
Returned(output, err) == [output |-> output, err |-> err]

\* Encode(pack)
Encode(m, mOrder, oOrder) ==
  /\ encMsg' = m
  /\ encCalls' = encCalls + 1
  /\ decoded' = NotDecoded
  /\ UNCHANGED <<encCfg, luaCfg, decPrefix>>
  /\ IF EncodeFails(m)
     THEN /\ encOut' = Returned(<<>>, TRUE)
          /\ line' = <<>>
          /\ UNCHANGED dedupeBuffer
     ELSE LET tags == Tags(encCfg, m, mOrder, oOrder)
              tagString == TagString(tags.map, tags.keys)
              buf == Line(encCfg, m, tagString)
              value == FieldValue(m, StrValue)
              bufkey == BufKey(m, tagString)
              fresh == [data |-> buf, skipped |-> FALSE, ts |-> m.Timestamp, val |-> value]
          IN IF ~DedupeOn(encCfg)
             THEN /\ encOut' = Returned(buf, FALSE)
                  /\ line' = buf
                  /\ UNCHANGED dedupeBuffer
             ELSE IF bufkey \in DOMAIN dedupeBuffer
                     /\ Withhold(dedupeBuffer[bufkey], value, m.Timestamp, encCfg)
             THEN /\ dedupeBuffer' = [dedupeBuffer EXCEPT ![bufkey] =
                                        [data |-> buf, skipped |-> TRUE, ts |-> @.ts, val |-> value]]
                  /\ encOut' = Returned(<<>>, FALSE)
                  /\ line' = <<>>
             ELSE /\ encOut' =
                       Returned((IF bufkey \in DOMAIN dedupeBuffer
                                    /\ SendPrevious(dedupeBuffer[bufkey], value, m.Timestamp, encCfg)
                                 THEN dedupeBuffer[bufkey].data ELSE <<>>) \o buf, FALSE)
                  /\ line' = encOut'.output
                  /\ dedupeBuffer' = Put(dedupeBuffer, bufkey, fresh)

\* ------------------------------------------------- OpenTsdbRawDecoder.Decode
\* "if len(line) >= 1024"
LineLimit == 1024

\* unicode.IsSpace for the bytes of a line
IsSpace(c) == c \in {9, 10, 11, 12, 13, 32}

\* strings.Trim(s, "\n")
TrimNewlines(s) ==
  LET I == {i \in DOMAIN s : s[i] # 10}
  IN IF I = {} THEN <<>>
     ELSE SubSeq(s, CHOOSE i \in I : \A j \in I : i <= j, CHOOSE i \in I : \A j \in I : j <= i)

\* strings.TrimPrefix(s, p)
TrimPrefix(s, p) == IF HasPrefix(s, p) THEN SubSeq(s, Len(p) + 1, Len(s)) ELSE s

\* strings.Fields(s): the maximal runs of non-space bytes, in order
StringsFields(s) ==
  LET starts == {i \in DOMAIN s : ~IsSpace(s[i]) /\ (i = 1 \/ IsSpace(s[i - 1]))}
      ends == {i \in DOMAIN s : ~IsSpace(s[i]) /\ (i = Len(s) \/ IsSpace(s[i + 1]))}
      nth(S, k) == CHOOSE i \in S : Cardinality({j \in S : j <= i}) = k
  IN [k \in 1..Cardinality(starts) |-> SubSeq(s, nth(starts, k), nth(ends, k))]

\* the digits of a token after an optional sign
Unsigned(tok) == IF tok # <<>> /\ Head(tok) \in {43, 45} THEN Tail(tok) ELSE tok

\* strconv.Atoi and strconv.ParseInt(tok, 10, 64) succeed: an optional sign
\* and one or more digits (the generated tokens are too short to overflow)
IsInt(tok) == Unsigned(tok) # <<>> /\ \A i \in DOMAIN Unsigned(tok) : Unsigned(tok)[i] \in 48..57

\* the value of a string of digits
RECURSIVE DigitsValue(_)
DigitsValue(ds) ==
  IF ds = <<>> THEN 0 ELSE 10 * DigitsValue(SubSeq(ds, 1, Len(ds) - 1)) + (ds[Len(ds)] - 48)

\* the integer that Atoi and ParseInt return
ToInt(tok) == IF Head(tok) = 45 THEN 0 - DigitsValue(Unsigned(tok)) ELSE DigitsValue(Unsigned(tok))

\* strconv.ParseFloat(tok, 64) succeeds, for tokens made of signs, digits and
\* dots: an optional sign, digits with at most one dot, one digit or more
IsFloat(tok) ==
  LET u == Unsigned(tok)
  IN /\ \A i \in DOMAIN u : u[i] \in 48..57 \/ u[i] = 46
     /\ Cardinality({i \in DOMAIN u : u[i] = 46}) <= 1
     /\ \E i \in DOMAIN u : u[i] \in 48..57

\* 10^k
RECURSIVE Pow10(_)
Pow10(k) == IF k = 0 THEN 1 ELSE 10 * Pow10(k - 1)

\* the float64 that ParseFloat returns
ToFloat(tok) ==
  LET u == Unsigned(tok)
      ds == SelectSeq(u, LAMBDA c : c # 46)
      dot == IndexOf(u, StrDot)
      scale == IF dot = 0 THEN 1 ELSE Pow10(Len(u) - dot)
  IN FloatVal(IF Head(tok) = 45 THEN 0 - DigitsValue(ds) ELSE DigitsValue(ds), scale)

\* "x := strings.SplitN(tag, "=", 2); addStatField(pack, TagNamePrefix+x[0], x[1])"
RECURSIVE TagFields(_, _)
TagFields(prefix, tags) ==
  IF tags = <<>> THEN <<>>
  ELSE LET x == SplitN2(Head(tags), StrEq)
       IN <<[name |-> prefix \o x[1], value |-> StrVal(x[2])]>> \o TagFields(prefix, Tail(tags))

\* Decode(pack), the payload of the pack being p
DecodeLine(prefix, p) ==
  LET l == TrimPrefix(TrimNewlines(p), StrPut)
      fields == StringsFields(l)
  IN IF Len(l) >= LineLimit THEN Failed("error")
     ELSE IF Len(fields) < 3 THEN Failed("error")
     ELSE IF ~IsInt(fields[2]) THEN Failed("error")
     ELSE IF ~IsInt(fields[3]) /\ ~IsFloat(fields[3]) THEN Failed("error")
     ELSE IF \E i \in 4..Len(fields) : IndexOf(fields[i], StrEq) = 0
     THEN Failed("panic")   \* x[1]: index out of range
     ELSE [status |-> "ok",
           record |-> [Timestamp |-> ToInt(fields[2]) * TicksPerSec,
                       Fields |-> <<[name |-> StrMetric, value |-> StrVal(fields[1])],
                                    [name |-> StrValue,
                                     value |-> IF IsInt(fields[3]) THEN IntVal(ToInt(fields[3]))
                                               ELSE ToFloat(fields[3])]>>
                                    \o TagFields(prefix, SubSeq(fields, 4, Len(fields)))]]

Decode ==
  /\ decoded = NotDecoded
  /\ line # <<>>
  /\ decoded' = DecodeLine(decPrefix, line)
  /\ UNCHANGED <<encCfg, luaCfg, dedupeBuffer, encMsg, encOut, encCalls, decPrefix, line>>

\* ------------------------------------------- opentsdb_raw.lua process_message
\* "host"
StrHost == <<104, 111, 115, 116>>

\* the tags the field loop adds to the payload
RECURSIVE LuaTags(_, _)
LuaTags(cfg, fields) ==
  IF fields = <<>> THEN <<>>
  ELSE LET name == Head(fields).name
           tag == StrSpace \o TrimPrefix(name, cfg.tag_prefix) \o StrEq \o Sprint(Head(fields).value)
       IN (IF name # cfg.metric_field \/ name # cfg.value_field
           THEN IF Len(cfg.tag_prefix) > 0
                THEN IF HasPrefix(name, cfg.tag_prefix) THEN tag ELSE <<>>
                ELSE tag
           ELSE <<>>)
            \o LuaTags(cfg, Tail(fields))

\* seen_hosttag after the field loop
SeenHostTag(cfg, fields) ==
  \E i \in DOMAIN fields :
    /\ fields[i].name # cfg.metric_field \/ fields[i].name # cfg.value_field
    /\ StrHost = IF Len(cfg.tag_prefix) > 0 /\ HasPrefix(fields[i].name, cfg.tag_prefix)
                 THEN TrimPrefix(fields[i].name, cfg.tag_prefix) ELSE fields[i].name

\* process_message() of the Lua encoder: the payload it injects, or status -1
LuaProcessMessage(m) ==
  /\ encMsg' = m
  /\ encCalls' = encCalls + 1
  /\ encOut' =
       IF ~HasField(m, luaCfg.metric_field) \/ ~HasField(m, luaCfg.value_field)
       THEN Returned(<<>>, TRUE)
       ELSE Returned(
              Sprint(FieldValue(m, luaCfg.metric_field)) \o StrSpace
                \o Itoa(UnixSeconds(m.Timestamp)) \o StrSpace
                \o Sprint(FieldValue(m, luaCfg.value_field))
                \o (IF luaCfg.fields_to_tags THEN LuaTags(luaCfg, m.Fields) ELSE <<>>)
                \o (IF luaCfg.add_hostname
                       /\ ~(luaCfg.fields_to_tags /\ SeenHostTag(luaCfg, m.Fields))
                    THEN StrSpace \o StrHost \o StrEq \o m.Hostname ELSE <<>>),
              FALSE)
  /\ UNCHANGED <<encCfg, luaCfg, dedupeBuffer, decPrefix, line, decoded>>

\* the configurations of the two encoders by default
DefaultEncCfg ==
  [TagNamePrefix |-> <<>>, TagValuePrefix |-> <<>>, FieldsToTags |-> TRUE,
   DedupeFlush |-> 0, AddTagsIfMissing |-> <<>>, AddTagsOverride |-> <<>>]
DefaultLuaCfg ==
  [metric_field |-> StrMetric, value_field |-> StrValue, fields_to_tags |-> FALSE,
   tag_prefix |-> <<>>, add_hostname |-> FALSE]

\* the codecs before their first call
CodecStart ==
  /\ dedupeBuffer = EmptyMap
  /\ encMsg = [Timestamp |-> 0, Hostname |-> <<>>, Fields |-> <<>>]
  /\ encOut = Returned(<<>>, FALSE)
  /\ encCalls = 0
  /\ decoded = NotDecoded

\* the codecs while another component is run
CodecIdle ==
  /\ encCfg = DefaultEncCfg
  /\ luaCfg = DefaultLuaCfg
  /\ decPrefix = <<>>
  /\ line = <<>>
  /\ CodecStart

\* --------------------------------------------- opentsdb_http.lua process_message
\* The payload is the JSON array cjson.encode(buffer) writes, kept as the list
\* of its objects.  ts_from_message is set, so ts is the message Timestamp.

\* msg.tags after the field loop; 'msg.tags["host"] = read_message("Hostame")'
\* at line 117 assigns nil and adds nothing
RECURSIVE HttpTags(_, _, _)
HttpTags(cfg, fields, tags) ==
  IF fields = <<>> THEN tags
  ELSE LET name == Head(fields).name
           add == /\ name # cfg.metric_field /\ name # cfg.value_field
                  /\ Len(cfg.tag_prefix) > 0 => HasPrefix(name, cfg.tag_prefix)
       IN HttpTags(cfg, Tail(fields),
                   IF add THEN Put(tags, TrimPrefix(name, cfg.tag_prefix), Head(fields).value)
                   ELSE tags)

\* the table added to the buffer for a message
HttpMsg(cfg, m) ==
  [timestamp |-> m.Timestamp,
   metric |-> FieldValue(m, cfg.metric_field),
   value |-> FieldValue(m, cfg.value_field),
   tags |-> IF cfg.fields_to_tags THEN HttpTags(cfg, m.Fields, EmptyMap) ELSE EmptyMap]

\* a flush that never happens on the count
FlushOnCountNever(cfg, n) == FALSE

\* "flush_count > 0 and #buffer >= flush_count"
FlushOnCount(cfg, n) == cfg.flush_count > 0 /\ n >= cfg.flush_count

\* "flush_delta > 0 and ts - last_flush > flush_delta"
FlushOnDelta(cfg, ts, last) == cfg.flush_delta > 0 /\ ts - last > cfg.flush_delta * TicksPerSec

\* what a call returned and injected
HttpReturned(status, payload) == [status |-> status, payload |-> payload]

\* process_message() of the HTTP encoder, flush(ts) included
HttpProcessMessage(m) ==
  /\ httpCalls' = httpCalls + 1
  /\ IF ~HasField(m, httpCfg.metric_field) \/ ~HasField(m, httpCfg.value_field)
     THEN /\ httpOut' = HttpReturned(-1, <<>>)
          /\ UNCHANGED <<httpBuffer, last_flush, httpAccepted, httpSent>>
     ELSE LET buf == Append(httpBuffer, HttpMsg(httpCfg, m))
          IN /\ httpAccepted' = Append(httpAccepted, HttpMsg(httpCfg, m))
             /\ IF FlushOnCount(httpCfg, Len(buf)) \/ FlushOnDelta(httpCfg, m.Timestamp, last_flush)
                THEN /\ httpOut' = HttpReturned(0, buf)
                     /\ httpSent' = httpSent \o buf
                     /\ last_flush' = m.Timestamp
                     /\ httpBuffer' = <<>>
                ELSE /\ httpOut' = HttpReturned(-2, <<>>)
                     /\ httpBuffer' = buf
                     /\ UNCHANGED <<last_flush, httpSent>>
  /\ UNCHANGED httpCfg

\* the HTTP encoder as configured by default and before its first call
DefaultHttpCfg ==
  [metric_field |-> StrMetric, value_field |-> StrValue, flush_count |-> 1, flush_delta |-> 0,
   fields_to_tags |-> FALSE, tag_prefix |-> <<>>]

HttpStart ==
  /\ httpBuffer = <<>>
  /\ last_flush = 0
  /\ httpOut = HttpReturned(0, <<>>)
  /\ httpCalls = 0
  /\ httpAccepted = <<>>
  /\ httpSent = <<>>

\* the HTTP encoder while another component is run
HttpIdle == httpCfg = DefaultHttpCfg /\ HttpStart

\* ------------------------------------------------------------------- Spec
\* any stream of records, one handler call per step

\* the records of the input stream: one tag set with two values, two tag sets
\* with "k" (which share the precomputed key and differ in the tag "h"), and a
\* record without a value
InputFields ==
  { (FieldH :> Str1) @@ (FieldV :> Str1),
    (FieldH :> Str1) @@ (FieldV :> Str2),
    (FieldH :> Str1) @@ (FieldK :> Str1) @@ (FieldV :> Str1),
    (FieldH :> Str2) @@ (FieldK :> Str1) @@ (FieldV :> Str2),
    (FieldH :> Str1) }

InputMsgs == [Timestamp : 0..MaxTime, Fields : InputFields]

InitDedupe ==
  /\ buffer = EmptyMap
  /\ dedupe_count = 0
  /\ buffer_size = 0
  /\ key = NilKey
  /\ injected = <<>>
  /\ lastOp = "init"
  /\ msg = NilMsg
  /\ calls = 0
  /\ nSuppressed = 0
  /\ prev = EmptyMap

Init ==
  /\ dedupe_window \in -1..MaxWindow
  /\ dedupe_key \in {NilKey, FieldK}
  /\ InitDedupe
  /\ tape = <<>>
  /\ pos = 0
  /\ emitted = <<>>
  /\ AggIdle
  /\ CodecIdle
  /\ HttpIdle

process_message ==
  /\ calls < MaxCalls
  /\ calls' = calls + 1
  /\ \E m \in InputMsgs :
       \E order \in Orders(DOMAIN Invariants(m.Fields)) :
         ProcessMessage(m, order) /\ Observe(m)
  /\ UNCHANGED <<dedupe_window, dedupe_key, tape, pos, emitted>>
  /\ UNCHANGED <<aggVars, codecVars, httpVars>>

Next == process_message \/ timer_event

Spec == Init /\ [][Next]_vars

\* ---------------------------------------------------------------- SpecDoc
\* one key, dedupe_window up to the 3 seconds of the header's example, the input
\* stream fixed at the start: the header's stream, the two streams of the
\* documented examples, or any stream of up to MaxTapeLen records with the
\* values 5 and 6 at the seconds 0..MaxTapeSec

\* "(dedupe_window is set to 3)"
DocWindow == 3

DocRecord(sec, value) ==
  [Timestamp |-> sec * TicksPerSec, Fields |-> (FieldH :> Str1) @@ (FieldV :> value)]

\* input:   1  2  2  2  3  1  1  1              1  2
HeaderTape ==
  << DocRecord(0, Str1), DocRecord(1, Str2), DocRecord(2, Str2), DocRecord(3, Str2),
     DocRecord(4, Str3), DocRecord(5, Str1), DocRecord(6, Str1), DocRecord(7, Str1),
     DocRecord(12, Str1), DocRecord(13, Str2) >>

\* v=5 at t=0,1,2 and v=6 at t=3
RunTape == << DocRecord(0, Str5), DocRecord(1, Str5), DocRecord(2, Str5), DocRecord(3, Str6) >>

\* identical v=5 at t=0 and t=10
ExpiryTape == << DocRecord(0, Str5), DocRecord(10, Str5) >>

\* the message injected for DocRecord(sec, value)
DocMessage(sec, value) ==
  [Timestamp |-> sec * TicksPerSec, Type |-> "dedupe",
   Fields |-> (FieldH :> Str1) @@ (FieldV :> value)]

GeneratedRecords == { DocRecord(sec, value) : sec \in 0..MaxTapeSec, value \in {Str5, Str6} }

GeneratedTapes == UNION { [1..n -> GeneratedRecords] : n \in 1..MaxTapeLen }

DocTapes == GeneratedTapes \cup {HeaderTape, RunTape, ExpiryTape}

InitDoc ==
  /\ dedupe_window \in 1..DocWindow
  /\ dedupe_key = NilKey
  /\ InitDedupe
  /\ tape \in DocTapes
  /\ pos = 0
  /\ emitted = <<>>
  /\ AggIdle
  /\ CodecIdle
  /\ HttpIdle

\* the host delivers the next record of the stream
deliver ==
  /\ pos < Len(tape)
  /\ pos' = pos + 1
  /\ calls' = calls + 1
  /\ \E order \in Orders(DOMAIN Invariants(tape[pos + 1].Fields)) :
       ProcessMessage(tape[pos + 1], order) /\ Observe(tape[pos + 1])
  /\ emitted' = emitted \o injected'
  /\ UNCHANGED <<dedupe_window, dedupe_key, tape>>
  /\ UNCHANGED <<aggVars, codecVars, httpVars>>

NextDoc == deliver \/ timer_event

SpecDoc == InitDoc /\ [][NextDoc]_vars

\* --------------------------------------------------------------- SpecKeys
\* two keys: any stream of up to MaxKeyTapeLen records with the tags h=1 and
\* h=2 and the values 5 and 6 at the seconds 0..MaxKeyTapeSec

KeyRecords ==
  { [Timestamp |-> sec * TicksPerSec, Fields |-> (FieldH :> h) @@ (FieldV :> value)] :
      sec \in 0..MaxKeyTapeSec, h \in {Str1, Str2}, value \in {Str5, Str6} }

KeyTapes == UNION { [1..n -> KeyRecords] : n \in 1..MaxKeyTapeLen }

InitKeys ==
  /\ dedupe_window \in 1..MaxWindow
  /\ dedupe_key = NilKey
  /\ InitDedupe
  /\ tape \in KeyTapes
  /\ pos = 0
  /\ emitted = <<>>
  /\ AggIdle
  /\ CodecIdle
  /\ HttpIdle

NextKeys == deliver

SpecKeys == InitKeys /\ [][NextKeys]_vars

\* ---------------------------------------------------------------- SpecAgg
\* The aggregator under any calls of its two handlers (at most MaxAggEvents),
\* or under one of the scripts below.  A record without Fields[Sampling]
\* reads as sampling 1 ("or 1").

\* a statsd record
Obs(metric, value, modifier, sampling) ==
  [type |-> "obs", metric |-> metric, hasValue |-> TRUE, value |-> value,
   modifier |-> modifier, sampling |-> sampling, ns |-> 0]

\* a record without Fields[Modifier]
NoModifier(metric, value) ==
  [type |-> "obs", metric |-> metric, hasValue |-> TRUE, value |-> value,
   modifier |-> "", sampling |-> FInt(1), ns |-> 0]

\* a timer_event(ns) call
Flush(ns) ==
  [type |-> "flush", metric |-> "", hasValue |-> FALSE, value |-> 0,
   modifier |-> "", sampling |-> FInt(1), ns |-> ns]

\* the sample rates of the generated counters: 1 and 0.5
Samplings == {FInt(1), Frac(1, 2)}

\* the records of the free run: metric "a" in every kind, a second counter "b",
\* and a record that lacks its modifier
AggObs ==
  { Obs("a", v, "c", s) : v \in 1..MaxValue, s \in Samplings }
    \cup { Obs("a", v, k, FInt(1)) : v \in 1..MaxValue, k \in {"g", "ms", "s"} }
    \cup { Obs("b", 1, "c", FInt(1)), NoModifier("a", 1) }

\* the statsd record repeated n times
Repeat(e, n) == [i \in 1..n |-> e]

\* "ingesting {value:1, kind:Counter} five times then flushing"
FiveCounters == Repeat(Obs("a", 1, "c", FInt(1)), 5) \o <<Flush(TicksPerSec)>>

\* "a single {value:1, sampleRate:0.1}"
SampledCounter == <<Obs("a", 1, "c", Frac(1, 10)), Flush(TicksPerSec)>>

\* the samples 1..10, arriving in descending order
TenSamples == [i \in 1..10 |-> Obs("a", 11 - i, "ms", FInt(1))] \o <<Flush(TicksPerSec)>>

\* "ingest gauge 42, flush -> 42, flush again with no new observations -> 42"
Gauge42 == <<Obs("a", 42, "g", FInt(1)), Flush(1), Flush(2)>>

\* up to MaxSamples samples of one histogram, two flushes, a sample, a flush
TimerScripts ==
  { [i \in DOMAIN s |-> Obs("a", s[i], "ms", FInt(1))]
      \o <<Flush(1), Flush(2), Obs("a", 1, "ms", FInt(1)), Flush(3)>> :
      s \in UNION { [1..n -> 1..MaxValue] : n \in 1..MaxSamples } }

\* up to MaxSamples records of one counter, two flushes, a record, a flush
CounterScripts ==
  { [i \in DOMAIN s |-> Obs("a", s[i], "c", FInt(1))]
      \o <<Flush(1), Flush(2), Obs("a", 1, "c", FInt(1)), Flush(3)>> :
      s \in UNION { [1..n -> 1..MaxValue] : n \in 1..MaxSamples } }

AggScripts ==
  {FiveCounters, SampledCounter, TenSamples, Gauge42} \cup TimerScripts \cup CounterScripts

\* the calls the host can make next
NextEvents ==
  IF script = <<>>
  THEN IF Len(events) < MaxAggEvents
       THEN AggObs \cup { Flush(lastTime + d) : d \in 0..MaxDelta }
       ELSE {}
  ELSE IF Len(events) < Len(script) THEN {script[Len(events) + 1]} ELSE {}

\* the dedupe filter while the aggregator is run
DedupeIdle ==
  /\ dedupe_window = 0
  /\ dedupe_key = NilKey
  /\ InitDedupe
  /\ tape = <<>>
  /\ pos = 0
  /\ emitted = <<>>

InitAgg ==
  /\ send_idle \in BOOLEAN
  /\ calc_rates \in BOOLEAN
  /\ self_stats \in BOOLEAN
  /\ AggStart
  /\ script \in {<<>>} \cup AggScripts
  /\ DedupeIdle
  /\ CodecIdle
  /\ HttpIdle

\* the host delivers a record
agg_process_message ==
  /\ sandbox = "running"
  /\ \E e \in NextEvents : e.type = "obs" /\ AggProcessMessage(e)
  /\ UNCHANGED <<dedupeVars, codecVars, httpVars>>

\* the host's ticker fires
agg_timer_event ==
  /\ sandbox = "running"
  /\ \E e \in NextEvents : e.type = "flush" /\ AggTimerEvent(e)
  /\ UNCHANGED <<dedupeVars, codecVars, httpVars>>

NextAgg == agg_process_message \/ agg_timer_event

SpecAgg == InitAgg /\ [][NextAgg]_vars

\* ---------------------------------------------------------------- SpecEnc
\* the Go encoder under a choice of configurations, each line it returns
\* being handed to a decoder with the same tagname_prefix

\* "t_", "m", "mt_h.1", "t_h", "t_th", "x", "a=1", "h=3", "h=2"
StrPrefixT == <<116, 95>>
StrM == <<109>>
StrMEmbedded == <<109, 116, 95, 104, 46, 49>>
StrTH == <<116, 95, 104>>
StrTTH == <<116, 95, 116, 104>>
StrX == <<120>>
StrA1 == <<97, 61, 49>>
StrH3 == <<104, 61, 51>>
StrH2 == <<104, 61, 50>>

Field(name, value) == [name |-> name, value |-> value]

\* the field lists of the generated messages: a plain datapoint with two
\* values, tag fields with and without the prefix, a metric name with the
\* embedded tag h=1, and messages without Value and without Metric
PlainFields(v) == <<Field(StrMetric, StrVal(StrM)), Field(StrValue, IntVal(v))>>
NoValueFields == <<Field(StrMetric, StrVal(StrM))>>
NoMetricFields == <<Field(StrValue, IntVal(1))>>

EncFieldLists ==
  { PlainFields(1), PlainFields(2), NoValueFields, NoMetricFields,
    PlainFields(1) \o <<Field(StrTH, StrVal(Str5))>>,
    PlainFields(1) \o <<Field(StrTTH, StrVal(Str5))>>,
    <<Field(FieldH, StrVal(Str6))>> \o PlainFields(1) \o <<Field(StrTH, StrVal(Str5))>>,
    <<Field(StrMetric, StrVal(StrMEmbedded)), Field(StrValue, IntVal(1)),
      Field(StrTH, StrVal(Str5))>> }

DedupeFieldLists == {PlainFields(1), PlainFields(2), NoValueFields}

EncCfg(prefix, fieldsToTags, flush, missing, override) ==
  [TagNamePrefix |-> prefix, TagValuePrefix |-> <<>>, FieldsToTags |-> fieldsToTags,
   DedupeFlush |-> flush, AddTagsIfMissing |-> missing, AddTagsOverride |-> override]

EncCfgs ==
  { EncCfg(p, f, 0, mi, ov) : p \in {<<>>, StrPrefixT}, f \in BOOLEAN,
                              mi \in {<<>>, <<StrA1, StrH3>>}, ov \in {<<>>, <<StrH2>>} }
    \cup { EncCfg(p, TRUE, w, <<>>, <<>>) : p \in {<<>>, StrPrefixT}, w \in 1..MaxDedupeFlush }
    \cup { EncCfg(<<>>, TRUE, w, <<StrA1, StrH3>>, <<>>) : w \in 1..MaxDedupeFlush }

\* the messages the host hands to Encode under a configuration
EncMsgs(cfg) ==
  [Timestamp : 0..MaxEncTime, Hostname : {StrX},
   Fields : IF DedupeOn(cfg) THEN DedupeFieldLists ELSE EncFieldLists]

InitEnc ==
  /\ encCfg \in EncCfgs
  /\ luaCfg = DefaultLuaCfg
  /\ decPrefix = encCfg.TagNamePrefix
  /\ line = <<>>
  /\ CodecStart
  /\ HttpIdle
  /\ DedupeIdle
  /\ AggIdle

\* the host hands a message to the encoder
enc_encode ==
  /\ encCalls < (IF DedupeOn(encCfg) THEN MaxDedupeCalls ELSE MaxEncCalls)
  /\ \E m \in EncMsgs(encCfg) :
       \E mOrder \in Orders(DOMAIN StaticTags(encCfg.AddTagsIfMissing)) :
         \E oOrder \in Orders(DOMAIN StaticTags(encCfg.AddTagsOverride)) :
           Encode(m, mOrder, oOrder)
  /\ UNCHANGED <<dedupeVars, aggVars, httpVars>>

\* the returned line is handed to the decoder
dec_decode == Decode /\ UNCHANGED <<dedupeVars, aggVars, httpVars>>

NextEnc == enc_encode \/ dec_decode

SpecEnc == InitEnc /\ [][NextEnc]_vars

\* ---------------------------------------------------------------- SpecDec
\* the Go decoder on generated payloads

RECURSIVE Join(_)
Join(tokens) ==
  IF tokens = <<>> THEN <<>>
  ELSE IF Len(tokens) = 1 THEN Head(tokens)
  ELSE Head(tokens) \o StrSpace \o Join(Tail(tokens))

\* a line of n bytes: a metric name of "m"s, then " 1 1"
PadLine(n) == [i \in 1..(n - 4) |-> 109] \o <<32, 49, 32, 49>>

\* timestamp tokens "1", "-1", "a"; value tokens "1", "-2", "1.5", "1.5.1",
\* "a"; tag tokens "h=1", "h", "h=1=2", "a="
DecTimestamps == {Str1, <<45, 49>>, <<97>>}
DecValues == {Str1, <<45, 50>>, <<49, 46, 53>>, <<49, 46, 53, 46, 49>>, <<97>>}
DecTagLists ==
  { <<>>, <<<<104, 61, 49>>>>, <<<<104>>>>, <<<<104, 61, 49, 61, 50>>>>,
    <<<<104, 61, 49>>, <<97, 61>>>>, <<<<104, 61, 49>>, <<97>>>> }

\* the payloads: lines of three tokens or more with and without "put " and
\* a closing newline, lines of fewer tokens, and lines about LineLimit long
DecLines ==
  { put \o Join(<<StrM, ts, v>> \o tags) \o nl :
      put \in {<<>>, StrPut}, nl \in {<<>>, StrNewline},
      ts \in DecTimestamps, v \in DecValues, tags \in DecTagLists }
    \cup { <<10>>, StrM, Join(<<StrM, Str1>>), StrPut \o Join(<<StrM, Str1>>) }
    \cup { PadLine(n) : n \in {LineLimit - 1, LineLimit, LineLimit + 1} }
    \cup { StrPut \o PadLine(LineLimit) \o StrNewline }

InitDec ==
  /\ encCfg = DefaultEncCfg
  /\ luaCfg = DefaultLuaCfg
  /\ decPrefix \in {<<>>, StrPrefixT}
  /\ line \in DecLines
  /\ CodecStart
  /\ HttpIdle
  /\ DedupeIdle
  /\ AggIdle

NextDec == dec_decode

SpecDec == InitDec /\ [][NextDec]_vars

\* ---------------------------------------------------------------- SpecLua
\* the Lua encoder opentsdb_raw.lua, ts_from_message = true, on messages
\* whose Timestamp is a whole number of seconds

\* "t_host"
StrTHost == <<116, 95, 104, 111, 115, 116>>

LuaCfgs ==
  [metric_field : {StrMetric}, value_field : {StrValue}, fields_to_tags : BOOLEAN,
   tag_prefix : {<<>>, StrPrefixT}, add_hostname : BOOLEAN]

LuaFieldLists ==
  { PlainFields(1), NoValueFields, NoMetricFields,
    PlainFields(1) \o <<Field(StrTH, StrVal(Str5))>>,
    PlainFields(1) \o <<Field(StrHost, StrVal(Str6))>>,
    PlainFields(2) \o <<Field(StrTHost, StrVal(Str6))>>,
    <<Field(FieldH, StrVal(Str6))>> \o PlainFields(1) \o <<Field(StrTH, StrVal(Str5))>> }

LuaMsgs ==
  [Timestamp : {t \in 0..MaxEncTime : t % TicksPerSec = 0}, Hostname : {StrX},
   Fields : LuaFieldLists]

InitLua ==
  /\ encCfg = DefaultEncCfg
  /\ luaCfg \in LuaCfgs
  /\ decPrefix = <<>>
  /\ line = <<>>
  /\ CodecStart
  /\ HttpIdle
  /\ DedupeIdle
  /\ AggIdle

\* the host hands a message to the Lua encoder
lua_process_message ==
  /\ encCalls < MaxEncCalls
  /\ \E m \in LuaMsgs : LuaProcessMessage(m)
  /\ UNCHANGED <<dedupeVars, aggVars, httpVars>>

NextLua == lua_process_message

SpecLua == InitLua /\ [][NextLua]_vars

\* --------------------------------------------------------------- SpecHttp
\* the Lua encoder opentsdb_http.lua under a choice of flush_count and
\* flush_delta

HttpCfgs ==
  [metric_field : {StrMetric}, value_field : {StrValue}, flush_count : 0..MaxFlushCount,
   flush_delta : 0..MaxFlushDelta, fields_to_tags : BOOLEAN, tag_prefix : {<<>>}]
    \cup {[DefaultHttpCfg EXCEPT !.fields_to_tags = TRUE, !.tag_prefix = StrPrefixT]}

\* the messages the host hands over: with flush_delta any Timestamp of one
\* datapoint, without it two Timestamps of a datapoint, of one with a tag
\* field, and of a message without Value
HttpMsgs(cfg) ==
  IF cfg.flush_delta > 0
  THEN [Timestamp : 0..MaxEncTime, Hostname : {StrX}, Fields : {PlainFields(1)}]
  ELSE [Timestamp : {0, MaxEncTime}, Hostname : {StrX},
        Fields : {PlainFields(1), NoValueFields, PlainFields(2) \o <<Field(StrTH, StrVal(Str5))>>}]

InitHttp ==
  /\ httpCfg \in HttpCfgs
  /\ HttpStart
  /\ CodecIdle
  /\ DedupeIdle
  /\ AggIdle

\* the host hands a message to the HTTP encoder
http_process_message ==
  /\ httpCalls < MaxHttpCalls
  /\ \E m \in HttpMsgs(httpCfg) : HttpProcessMessage(m)
  /\ UNCHANGED <<dedupeVars, aggVars, codecVars>>

NextHttp == http_process_message

SpecHttp == InitHttp /\ [][NextHttp]_vars

\* ------------------------------------------------------------ properties
\* The formulas below read a process_message step through the record it read
\* (msg'), the key it computed (key') and the messages it injected (injected').

\* a step that is one process_message call
IsCall == calls' = calls + 1

\* the message the call generates for the record it read
Current == [Timestamp |-> msg'.Timestamp, Type |-> "dedupe", Fields |-> msg'.Fields]

\* the variant field values of the record read
CurrentVariants == [n \in {FieldV} \cap DOMAIN msg'.Fields |-> msg'.Fields[n]]

\* state exists for the record's key
HasState == key' \in DOMAIN buffer

\* every variant field value of the record equals the stored value
SameVariants ==
  \A n \in DOMAIN CurrentVariants :
     n \in DOMAIN buffer[key'].data /\ buffer[key'].data[n] = CurrentVariants[n]

\* current.timestamp - stored.timestamp < dedupe_window
InsideWindow == msg'.Timestamp - buffer[key'].timestamp < dedupe_window * TicksPerSec

\* C1: a record whose key has state, whose variant values equal the stored ones
\* and whose timestamp is less than dedupe_window after the stored timestamp
\* injects nothing, replaces the stored message and data by its own, keeps the
\* stored timestamp, sets skipped and adds exactly 1 to dedupe_count.
C1_Suppression ==
  [][ (IsCall /\ HasState /\ SameVariants /\ InsideWindow)
      => /\ injected' = <<>>
         /\ buffer'[key'].message = Current
         /\ buffer'[key'].data = CurrentVariants
         /\ buffer'[key'].timestamp = buffer[key'].timestamp
         /\ buffer'[key'].skipped = TRUE
         /\ dedupe_count' = dedupe_count + 1 ]_vars

\* a suppressed point later than the stored timestamp has been stored
C1_Witness ==
  /\ lastOp = "process_message"
  /\ injected = <<>>
  /\ dedupe_count = 1
  /\ key \in DOMAIN buffer
  /\ buffer[key].skipped
  /\ buffer[key].message.Timestamp > buffer[key].timestamp

\* C2: a record whose key has state and which is not suppressed injects, when the
\* stored state is skipped, the stored message first and its own message second;
\* afterwards the stored state is the record, not skipped, with its timestamp.
C2_BoundaryEmission ==
  [][ (IsCall /\ HasState /\ ~(SameVariants /\ InsideWindow))
      => /\ buffer[key'].skipped => injected' = <<buffer[key'].message, Current>>
         /\ buffer'[key'] = [message |-> Current, data |-> CurrentVariants,
                             timestamp |-> msg'.Timestamp, skipped |-> FALSE] ]_vars

\* a withheld message and the record that ended its run were injected together
C2_Witness ==
  /\ lastOp = "process_message"
  /\ Len(injected) = 2
  /\ injected[1] # injected[2]
  /\ buffer[key].message = injected[2]
  /\ ~buffer[key].skipped

\* C3: with dedupe_window > 0, a record whose key has no state injects exactly
\* its own message and becomes the key's state, not skipped, with its timestamp.
C3_FirstRecord ==
  [][ (IsCall /\ dedupe_window > 0 /\ ~HasState)
      => /\ injected' = <<Current>>
         /\ key' \in DOMAIN buffer'
         /\ buffer'[key'] = [message |-> Current, data |-> CurrentVariants,
                             timestamp |-> msg'.Timestamp, skipped |-> FALSE] ]_vars

\* the first record of a second key has been stored and injected
C3_Witness ==
  /\ lastOp = "process_message"
  /\ calls = 2
  /\ Cardinality(DOMAIN buffer) = 2
  /\ injected = <<buffer[key].message>>


\* the first p records of the stream carry one variant value and timestamps
\* less than dedupe_window after the first record's
IsRun(p) ==
  /\ p >= 1 /\ p <= Len(tape)
  /\ \A i \in 1..p :
       /\ tape[i].Fields[FieldV] = tape[1].Fields[FieldV]
       /\ tape[i].Timestamp - tape[1].Timestamp < dedupe_window * TicksPerSec

\* C4: a run of records with one variant value, all less than dedupe_window after
\* the first, injects the first record only; a following record with another
\* value injects the last withheld record of the run and then itself
\* (v=5 at t=0,1,2 and v=6 at t=3 with a window of 3 s inject t=0, t=2, t=3).
C4_RunThenChange ==
  /\ IsRun(pos) => emitted = << NewMessage(tape[1]) >>
  /\ (pos >= 3 /\ IsRun(pos - 1) /\ tape[pos].Fields[FieldV] # tape[1].Fields[FieldV])
       => emitted = << NewMessage(tape[1]), NewMessage(tape[pos - 1]), NewMessage(tape[pos]) >>
  /\ (tape = RunTape /\ dedupe_window = 3 /\ pos = 4)
       => emitted = << DocMessage(0, Str5), DocMessage(2, Str5), DocMessage(3, Str6) >>

\* the stream v=5 at t=0,1,2 and v=6 at t=3 has been delivered with a window of 3 s
C4_Witness ==
  /\ tape = RunTape
  /\ dedupe_window = 3
  /\ pos = 4
  /\ Len(emitted) = 3

\* deduped: 1  2        23 1                    11 2
\* the messages injected at each record of the header's stream
HeaderOutput ==
  << << DocMessage(0, Str1) >>, << DocMessage(1, Str2) >>, <<>>, <<>>,
     << DocMessage(3, Str2), DocMessage(4, Str3) >>, << DocMessage(5, Str1) >>, <<>>, <<>>,
     << DocMessage(7, Str1), DocMessage(12, Str1) >>, << DocMessage(13, Str2) >> >>

RECURSIVE Flatten(_)
Flatten(ss) == IF ss = <<>> THEN <<>> ELSE Head(ss) \o Flatten(Tail(ss))

\* C6: with dedupe_window = 3 the header's input stream produces the header's
\* output, record by record: 1, 2, nothing, nothing, 2 and 3, 1, nothing,
\* nothing, 1 and 1, 2.
C6_HeaderExample ==
  (tape = HeaderTape /\ dedupe_window = DocWindow)
    => /\ emitted = Flatten(SubSeq(HeaderOutput, 1, pos))
       /\ (lastOp = "process_message" => injected = HeaderOutput[pos])

\* the whole of the header's stream has been delivered
C6_Witness ==
  /\ tape = HeaderTape
  /\ dedupe_window = DocWindow
  /\ pos = Len(HeaderTape)
  /\ Len(emitted) = 8


\* the previous record read for the key, as observed
Previous == prev[key']

\* some variant field value of the record differs from the previous record's
DiffersFromPrevious ==
  \E n \in DOMAIN CurrentVariants :
     n \notin DOMAIN Previous.message.Fields \/ Previous.message.Fields[n] # CurrentVariants[n]

\* by the end of the call the previous and the current message have both been injected
BothEmitted ==
  /\ injected' # <<>>
  /\ injected'[Len(injected')] = Current
  /\ Previous.emitted \/ injected' = <<Previous.message, Current>>

InvariantNames == DOMAIN msg'.Fields \ {FieldV}

C10_SelfStats ==
  /\ [](/\ buffer_size = Cardinality(DOMAIN buffer)
        /\ dedupe_count = nSuppressed
        /\ lastOp = "timer_event" =>
             injected = << [Type |-> "dedupe",
                            Fields |-> [Metric |-> "heka.dedupe.saved", Value |-> nSuppressed]],
                           [Type |-> "dedupe",
                            Fields |-> [Metric |-> "heka.dedupe.buffer_size",
                                        Value |-> Cardinality(DOMAIN buffer)]] >>)
  /\ [][ lastOp' = "timer_event" => UNCHANGED <<buffer, dedupe_count, buffer_size>> ]_vars

\* the statistics were reported with two keys tracked and one record suppressed
C10_Witness ==
  /\ lastOp = "timer_event"
  /\ buffer_size = 2
  /\ dedupe_count = 1
  /\ calls = 3

\* ------------------------------------------------- aggregator properties
\* The formulas below read an aggregator step through the call it made (the
\* last entry of events'), the calls made before it (events) and the messages
\* it injected (flushed').

\* a step that is one aggregator handler call
IsAggCall == Len(events') = Len(events) + 1

\* the call of the step
ThisCall == events'[Len(events')]

\* a step that is a timer_event call which did its work
IsFlush == IsAggCall /\ flushed'.op = "timer_event" /\ flushed'.ran

\* the ns of the last timer_event call among evs[1..i-1], the start time if none
RECURSIVE NsBefore(_, _)
NsBefore(evs, i) ==
  IF i <= 1 THEN 0
  ELSE IF evs[i - 1].type = "flush" THEN evs[i - 1].ns
  ELSE NsBefore(evs, i - 1)

\* call i is a timer_event with non-zero elapsed time
NonZeroFlush(evs, i) == evs[i].type = "flush" /\ evs[i].ns # NsBefore(evs, i)

\* the calls made since the last timer_event with non-zero elapsed time
SinceLastFlush(evs) ==
  LET F == {i \in DOMAIN evs : NonZeroFlush(evs, i)}
      last == IF F = {} THEN 0 ELSE CHOOSE i \in F : \A j \in F : j <= i
  IN SubSeq(evs, last + 1, Len(evs))

\* a record process_message accepts
Accepted(e) == e.type = "obs" /\ e.metric # "" /\ e.hasValue /\ e.modifier # ""

\* the accepted records of the name m among evs, in order
ObsOf(m, evs) == SelectSeq(evs, LAMBDA e : Accepted(e) /\ e.metric = m)

\* the records the flush injected for the bucket m under the suffix stat
Injected(m, stat, pct) ==
  { r \in flushed'.records[m] : r.Metric.stat = stat /\ r.Metric.pct = pct }

\* the sum of value * (1/sampleRate) over obs, as numerator and denominator
RECURSIVE SampledSum(_)
SampledSum(obs) ==
  IF obs = <<>> THEN [num |-> 0, den |-> 1]
  ELSE LET rest == SampledSum(Tail(obs))
           o == Head(obs)
       IN [num |-> rest.num * o.sampling.n + o.value * o.sampling.d * rest.den,
           den |-> rest.den * o.sampling.n]

\* the injected number f equals num/den
EqualsRatio(f, num, den) == f.n * den = f.d * num

\* C11: at a flush, a Counter bucket all of whose records since its creation
\* or last reset were Counter records (mixed kinds are the subject of C19)
\* injects exactly one <name>.count message, and its value is the sum of
\* value * (1/sampleRate) over those records.
C11_CounterSum ==
  [][ IsFlush =>
        \A m \in DOMAIN buckets :
           LET obs == ObsOf(m, SinceLastFlush(events))
           IN (buckets[m].Modifier = "c" /\ \A i \in DOMAIN obs : obs[i].modifier = "c")
              => /\ Cardinality(Injected(m, ".count", 0)) = 1
                 /\ \A r \in Injected(m, ".count", 0) :
                       EqualsRatio(r.Value, SampledSum(obs).num, SampledSum(obs).den) ]_vars

\* the flush of one record of value 1 at sample rate 0.1 injected a.count = 10
C11_Witness ==
  /\ events = SampledCounter
  /\ flushed.ran
  /\ \E r \in flushed.records["a"] : r.Metric.stat = ".count" /\ r.Value = FInt(10)

\* the values of the records obs in ascending order: position i holds the
\* value with fewer than i smaller-or-equal predecessors and at least i values
\* not above it
SortedValues(obs) ==
  [i \in DOMAIN obs |->
     CHOOSE v \in {obs[j].value : j \in DOMAIN obs} :
        /\ Cardinality({j \in DOMAIN obs : obs[j].value < v}) < i
        /\ i <= Cardinality({j \in DOMAIN obs : obs[j].value <= v})]

\* s[1] + ... + s[k]
RECURSIVE PrefixSum(_, _)
PrefixSum(s, k) == IF k = 0 THEN 0 ELSE PrefixSum(s, k - 1) + s[k]

\* n - floor(((100 - p)/100) * n + 0.5), in whole numbers
RuleIndex(n, p) == n - ((2 * (100 - p) * n + 100) \div 200)

\* the flush injected exactly one message <name><stat> and it carries num/den
InjectsOne(m, stat, pct, num, den) ==
  /\ Cardinality(Injected(m, stat, pct)) = 1
  /\ \A r \in Injected(m, stat, pct) : EqualsRatio(r.Value, num, den)

\* C12: at a flush, a Timer bucket whose records since its creation or last
\* reset were n >= 1 Timer records with the sorted values s[1..n] injects
\* count = n, lower = s[1], upper = s[n], sum = s[1]+...+s[n], mean = sum/n, and
\* for every configured percentile p, with idx = n - floor(((100-p)/100)*n + 0.5),
\* any upper_p it injects is s[idx], any sum_p is s[1]+...+s[idx], and any
\* mean_p is that sum divided by idx.
C12_PercentileRule ==
  [][ IsFlush =>
        \A m \in DOMAIN buckets :
           LET obs == ObsOf(m, SinceLastFlush(events))
               n == Len(obs)
               s == SortedValues(obs)
           IN (buckets[m].Modifier = "ms" /\ n >= 1
                 /\ \A i \in DOMAIN obs : obs[i].modifier = "ms")
              => /\ InjectsOne(m, ".count", 0, n, 1)
                 /\ InjectsOne(m, ".lower", 0, s[1], 1)
                 /\ InjectsOne(m, ".upper", 0, s[n], 1)
                 /\ InjectsOne(m, ".sum", 0, PrefixSum(s, n), 1)
                 /\ InjectsOne(m, ".mean", 0, PrefixSum(s, n), n)
                 /\ \A k \in DOMAIN percentiles :
                      LET p == percentiles[k]
                          idx == RuleIndex(n, p)
                      IN \/ /\ Injected(m, ".upper_", p) = {}
                            /\ Injected(m, ".sum_", p) = {}
                            /\ Injected(m, ".mean_", p) = {}
                         \/ /\ idx \in 1..n
                            /\ InjectsOne(m, ".upper_", p, s[idx], 1)
                            /\ InjectsOne(m, ".sum_", p, PrefixSum(s, idx), 1)
                            /\ InjectsOne(m, ".mean_", p, PrefixSum(s, idx), idx) ]_vars

\* the flush of the samples 1..10 injected upper_90 = 9, count = 10, mean = 5.5
C12_Witness ==
  /\ events = TenSamples
  /\ flushed.ran
  /\ \E r \in flushed.records["a"] :
        r.Metric.stat = ".upper_" /\ r.Metric.pct = 90 /\ r.Value = FInt(9)
  /\ \E r \in flushed.records["a"] : r.Metric.stat = ".count" /\ r.Value = FInt(10)
  /\ \E r \in flushed.records["a"] : r.Metric.stat = ".mean" /\ r.Value = [n |-> 11, d |-> 2]

\* every accepted record of the name m so far
AllObsOf(m) == ObsOf(m, events)

\* C13: a timer_event never changes a bucket whose Modifier is "g"; and with
\* send_idle_stats set, at every flush with non-zero elapsed time a name whose
\* records so far were all Gauge records injects exactly one message, carrying
\* the value of the last of them, however many flushes came in between.
C13_IdleGauge ==
  [][ (IsAggCall /\ ThisCall.type = "flush") =>
        \A m \in DOMAIN buckets :
           /\ (buckets[m].Modifier = "g" /\ m \in DOMAIN buckets')
                => buckets'[m] = buckets[m]
           /\ (IsFlush /\ send_idle /\ AllObsOf(m) # <<>>
                 /\ \A i \in DOMAIN AllObsOf(m) : AllObsOf(m)[i].modifier = "g")
                => InjectsOne(m, "", 0, AllObsOf(m)[Len(AllObsOf(m))].value, 1) ]_vars

\* the second flush after the gauge was set to 42 injected 42
C13_Witness ==
  /\ events = Gauge42
  /\ send_idle
  /\ flushed.ran
  /\ \E r \in flushed.records["a"] : r.Metric.stat = "" /\ r.Value = FInt(42)

\* C14: a timer_event whose ns equals lastTime injects nothing (no bucket
\* message and no self-statistics) and leaves buckets, lastTime and
\* metrics_received as they were; hence at the next timer_event with non-zero
\* elapsed time every bucket that received records of its own kind since the
\* last such flush, before or after the skipped call, injects its messages.
C14_ZeroElapsed ==
  [][ IsAggCall =>
        /\ (ThisCall.type = "flush" /\ ThisCall.ns = lastTime)
             => /\ flushed'.records = EmptyMap
                /\ flushed'.summary = <<>>
                /\ ~flushed'.ran
                /\ UNCHANGED <<buckets, lastTime, metrics_received, sandbox>>
        /\ IsFlush
             => \A m \in DOMAIN buckets :
                  LET obs == ObsOf(m, SinceLastFlush(events))
                  IN (obs # <<>> /\ \A i \in DOMAIN obs : obs[i].modifier = buckets[m].Modifier)
                     => flushed'.records[m] # {} ]_vars

\* a record, a timer_event with zero elapsed time, then one with non-zero
\* elapsed time that injected the record's bucket
C14_Witness ==
  /\ Len(events) = 3
  /\ Accepted(events[1])
  /\ events[2].type = "flush" /\ ~NonZeroFlush(events, 2)
  /\ NonZeroFlush(events, 3)
  /\ flushed.ran
  /\ flushed.records[events[1].metric] # {}

\* the names with an accepted record among evs
NamesIn(evs) == {evs[i].metric : i \in {j \in DOMAIN evs : Accepted(evs[j])}}

\* the value of the numStats message of the flush, when it sent one
NumStats == flushed'.summary[1].Value

\* C15: with send_idle_stats off, after every timer_event with non-zero elapsed
\* time the bucket map is empty; the flush injects bucket messages for exactly
\* the names that received a record since the previous such flush, and the
\* numStats it sends is the number of those names.
C15_FullReset ==
  [][ (IsFlush /\ ~send_idle) =>
        /\ buckets' = EmptyMap
        /\ DOMAIN flushed'.records = NamesIn(SinceLastFlush(events))
        /\ flushed'.summary # <<>>
             => NumStats = FInt(Cardinality(NamesIn(SinceLastFlush(events)))) ]_vars

\* a name was recorded, flushed, and the next flush injected nothing for it
\* and counted no bucket
C15_Witness ==
  /\ ~send_idle /\ self_stats
  /\ Len(events) = 3
  /\ Accepted(events[1])
  /\ NonZeroFlush(events, 2)
  /\ NonZeroFlush(events, 3)
  /\ flushed.ran
  /\ flushed.records = EmptyMap
  /\ flushed.summary[1].Value = FInt(0)
  /\ buckets = EmptyMap

\* C16: with send_idle_stats set, every timer_event with non-zero elapsed time
\* leaves the sum of each Counter bucket at 0, with and without
\* calculate_rates; a Counter bucket without a record since the previous such
\* flush injects <name>.count = 0, and one with Counter records only injects
\* the sum over the records since that flush and none from before it.
C16_IdleCounter ==
  [][ (IsFlush /\ send_idle) =>
        \A m \in DOMAIN buckets :
           LET obs == ObsOf(m, SinceLastFlush(events))
           IN buckets[m].Modifier = "c"
              => /\ m \in DOMAIN buckets'
                 /\ ~buckets'[m].Value.isTable
                 /\ EqualsRatio(buckets'[m].Value.num, 0, 1)
                 /\ obs = <<>> => InjectsOne(m, ".count", 0, 0, 1)
                 /\ (\A i \in DOMAIN obs : obs[i].modifier = "c")
                      => InjectsOne(m, ".count", 0, SampledSum(obs).num, SampledSum(obs).den) ]_vars

\* with calculate_rates set, a counter was recorded and flushed, and the next
\* flush injected <name>.count = 0
C16_Witness ==
  /\ send_idle /\ calc_rates
  /\ Len(events) = 3
  /\ Accepted(events[1]) /\ events[1].modifier = "c"
  /\ NonZeroFlush(events, 2)
  /\ NonZeroFlush(events, 3)
  /\ flushed.ran
  /\ \E r \in flushed.records[events[1].metric] : r.Metric.stat = ".count" /\ r.Value = FInt(0)

\* the bucket holds a sample list without samples
NoSamples(b) == b.Value.isTable /\ DOMAIN b.Value.tab = {}

\* C17: at a timer_event with non-zero elapsed time, with send_idle_stats set
\* a Timer bucket for which messages were injected holds an empty sample list
\* afterwards; a Timer bucket without samples injects no message at all; and
\* the numStats sent counts every bucket, the Timer buckets without samples
\* included.
C17_IdleTimer ==
  [][ IsFlush =>
        /\ \A m \in DOMAIN buckets :
              buckets[m].Modifier = "ms"
              => /\ (send_idle /\ flushed'.records[m] # {})
                      => (m \in DOMAIN buckets' /\ NoSamples(buckets'[m]))
                 /\ NoSamples(buckets[m]) => flushed'.records[m] = {}
        /\ flushed'.summary # <<>> => NumStats = FInt(Cardinality(DOMAIN buckets)) ]_vars

\* a flush at which the only bucket was a Timer without samples: nothing was
\* injected for it and numStats was 1
C17_Witness ==
  /\ send_idle /\ self_stats
  /\ Len(events) = 3
  /\ Accepted(events[1]) /\ events[1].modifier = "ms"
  /\ NonZeroFlush(events, 2)
  /\ NonZeroFlush(events, 3)
  /\ flushed.ran
  /\ flushed.records[events[1].metric] = {}
  /\ flushed.summary[1].Value = FInt(1)
  /\ NoSamples(buckets[events[1].metric])

\* the number of accepted process_message calls so far
AcceptedCalls == Cardinality({i \in DOMAIN events : Accepted(events[i])})

\* the flush injected one message group per bucket and then the numStats and
\* the metrics_received message, with the number of buckets and the number of
\* accepted calls
SentSelfStats ==
  LET n == Cardinality(DOMAIN buckets)
      sent == flushed'.sent
  IN /\ Len(sent) = n + 2
     /\ \A i \in 1..n : \E m \in DOMAIN buckets : sent[i] = flushed'.records[m]
     /\ sent[n + 1] = { Record(MetricName(<<global_prefix, "numStats">>, "", 0), FInt(n)) }
     /\ sent[n + 2] = { Record(MetricName(<<global_prefix, "metrics_received">>, "", 0),
                              FInt(AcceptedCalls)) }

\* the flush injected one message group per bucket and nothing else
SentBucketsOnly ==
  /\ Len(flushed'.sent) = Cardinality(DOMAIN buckets)
  /\ \A i \in DOMAIN flushed'.sent : \E m \in DOMAIN buckets : flushed'.sent[i] = flushed'.records[m]
  /\ flushed'.summary = <<>>

\* a call never lowers metrics_received, and a timer_event leaves it as it is
ReceivedKept ==
  /\ metrics_received' >= metrics_received
  /\ ThisCall.type = "flush" => metrics_received' = metrics_received

\* C18 as stated: every timer_event with non-zero elapsed time injects, after
\* all bucket messages, numStats (the number of buckets) and metrics_received
\* (the number of accepted process_message calls since the start), and
\* metrics_received never decreases nor is reset by a flush.
C18_AsStated ==
  [][ IsAggCall => /\ IsFlush => SentSelfStats
                   /\ ReceivedKept ]_vars

\* C18: every timer_event with non-zero elapsed time of a filter that sends
\* self-statistics (statsd_aggregator.lua; its later variant only with
\* send_self_stats set) injects, after all bucket messages, numStats (the
\* number of buckets) and metrics_received (the number of accepted
\* process_message calls since the start); the later variant without
\* send_self_stats injects neither; metrics_received never decreases and no
\* flush resets it, whether or not it clears the buckets.
C18_SelfStatistics ==
  [][ IsAggCall => /\ IsFlush => IF self_stats THEN SentSelfStats ELSE SentBucketsOnly
                   /\ ReceivedKept ]_vars

\* the second flush after one record, the first having cleared the buckets:
\* numStats is 0 and metrics_received is still 1
C18_Witness ==
  /\ self_stats /\ ~send_idle
  /\ Len(events) = 3
  /\ Accepted(events[1])
  /\ NonZeroFlush(events, 2)
  /\ NonZeroFlush(events, 3)
  /\ flushed.ran
  /\ flushed.sent = << { Record(MetricName(<<global_prefix, "numStats">>, "", 0), FInt(0)) },
                       { Record(MetricName(<<global_prefix, "metrics_received">>, "", 0), FInt(1)) } >>

\* a record with a name, a numeric value, a kind in {c, g, ms, s} and a sample
\* rate above 0
WellFormed(e) ==
  /\ Accepted(e)
  /\ e.modifier \in {"c", "g", "ms", "s"}
  /\ e.sampling.n > 0

\* C19: after any sequence of well-formed records, the same name in different
\* kinds included, and timer_event calls, no call has raised a runtime error.
C19_NeverFails ==
  (\A i \in DOMAIN events : events[i].type = "obs" => WellFormed(events[i]))
     => sandbox = "running"

\* C20: the Modifier of a bucket is the modifier of the record that created
\* it, and no process_message or timer_event call changes the Modifier of a
\* bucket that exists before and after the call.
C20_KindFixed ==
  [][ IsAggCall =>
        /\ \A m \in DOMAIN buckets \cap DOMAIN buckets' :
              buckets'[m].Modifier = buckets[m].Modifier
        /\ \A m \in DOMAIN buckets' \ DOMAIN buckets :
              /\ Accepted(ThisCall)
              /\ ThisCall.metric = m
              /\ buckets'[m].Modifier = ThisCall.modifier ]_vars

\* a counter bucket that has just taken a gauge record is still a counter
C20_Witness ==
  /\ Len(events) = 2
  /\ Accepted(events[1]) /\ events[1].modifier = "c"
  /\ Accepted(events[2]) /\ events[2].modifier = "g"
  /\ events[2].metric = events[1].metric
  /\ sandbox = "running"
  /\ buckets[events[1].metric].Modifier = "c"

\* the suffixes of the messages the flush injected for the bucket m
StatsOf(m) == { <<r.Metric.stat, r.Metric.pct>> : r \in flushed'.records[m] }

\* count, lower, upper, sum, mean, and rate under calculate_rates
BasicStats ==
  { <<".count", 0>>, <<".lower", 0>>, <<".upper", 0>>, <<".sum", 0>>, <<".mean", 0>> }
    \cup (IF calc_rates THEN {<<".rate", 0>>} ELSE {})

\* mean_p, sum_p and upper_p for the percentiles in P
PercentileStats(P) == { <<stat, p>> : stat \in {".mean_", ".sum_", ".upper_"}, p \in P }

\* the configured percentiles p with 0 < p < 100 whose index for n samples is > 0
EmittablePercentiles(n) ==
  { percentiles[k] : k \in { j \in DOMAIN percentiles :
       percentiles[j] > 0 /\ percentiles[j] < 100 /\ RuleIndex(n, percentiles[j]) > 0 } }

IsEncodeCall == encCalls' = encCalls + 1

\* the message lacks Fields[Metric] or Fields[Value]
LacksField(m) ==
  \/ ~\E i \in DOMAIN m.Fields : m.Fields[i].name = StrMetric
  \/ ~\E i \in DOMAIN m.Fields : m.Fields[i].name = StrValue

\* the dedupe key of a message under a configuration without configured tags
KeyOf(m) ==
  LET t == Tags(encCfg, m, <<>>, <<>>) IN BufKey(m, TagString(t.map, t.keys))

\* C22: with dedupe_window > 0, an Encode call for a metric/tag combination
\* whose last seen datapoint was withheld returns that datapoint followed by
\* the current one when the value has changed or the dedupe_window is exceeded.
C22_BothSent ==
  [][ ( /\ IsEncodeCall
        /\ encCfg.DedupeFlush > 0
        /\ encCfg.AddTagsIfMissing = <<>> /\ encCfg.AddTagsOverride = <<>>
        /\ ~LacksField(encMsg')
        /\ KeyOf(encMsg') \in DOMAIN dedupeBuffer
        /\ dedupeBuffer[KeyOf(encMsg')].skipped
        /\ \/ dedupeBuffer[KeyOf(encMsg')].val # FieldValue(encMsg', StrValue)
           \/ encMsg'.Timestamp - dedupeBuffer[KeyOf(encMsg')].ts
                >= encCfg.DedupeFlush * TicksPerSec )
      => encOut'.output = dedupeBuffer[KeyOf(encMsg')].data \o dedupeBuffer'[KeyOf(encMsg')].data
    ]_vars

\* the bytes are one line: a single newline, at the end
OneLine(bytes) ==
  /\ bytes # <<>>
  /\ {i \in DOMAIN bytes : bytes[i] = 10} = {Len(bytes)}

\* the line names the message's metric, second and value after "put"
EncodingOf(bytes, m) ==
  LET tokens == StringsFields(bytes)
  IN /\ Len(tokens) >= 4
     /\ tokens[1] = <<112, 117, 116>>
     /\ HasPrefix(FieldValue(m, StrMetric).str, tokens[2])
     /\ tokens[3] = Itoa(m.Timestamp \div TicksPerSec)
     /\ tokens[4] = Sprint(FieldValue(m, StrValue))

\* C23: with dedupe_window = 0 every Encode call leaves the dedupe buffer
\* empty, and on a message carrying Metric and Value it returns exactly one
\* line, the encoding of that message.
C23_DedupeOff ==
  [][ (IsEncodeCall /\ encCfg.DedupeFlush = 0)
      => /\ dedupeBuffer' = EmptyMap
         /\ ~LacksField(encMsg')
              => /\ ~encOut'.err
                 /\ OneLine(encOut'.output)
                 /\ EncodingOf(encOut'.output, encMsg')
    ]_vars

\* two calls with dedupe off returned a line with tags, the buffer is empty
C23_Witness ==
  /\ encCfg.DedupeFlush = 0
  /\ encCfg.TagNamePrefix # <<>>
  /\ encCalls = MaxEncCalls
  /\ ~encOut.err
  /\ Len(StringsFields(encOut.output)) > 4
  /\ dedupeBuffer = EmptyMap

\* the tag tokens of a returned line
TagTokens(bytes) ==
  LET tokens == StringsFields(bytes) IN {tokens[i] : i \in 5..Len(tokens)}

\* the tag tokens of a line that name the tag k
TokensOf(bytes, k) == {t \in TagTokens(bytes) : HasPrefix(t, k \o StrEq)}

\* C24: a tag embedded in the metric name keeps its value unless an override
\* tag names it; a tags_if_missing entry is written only for a name no
\* earlier source set; a tags_override entry is always written, alone.
C24_Precedence ==
  [][ (IsEncodeCall /\ encCfg.DedupeFlush = 0 /\ ~LacksField(encMsg'))
      => LET cfg == encCfg
             embedded == EmbeddedPairs(Tail(MetricParts(cfg, FieldValue(encMsg', StrMetric).str)),
                                       ValuePrefix(cfg))
             fromFields == IF cfg.FieldsToTags
                           THEN FieldPairs(encMsg'.Fields, cfg.TagNamePrefix) ELSE <<>>
             earlier == {embedded[i][1] : i \in DOMAIN embedded}
                          \cup {fromFields[i][1] : i \in DOMAIN fromFields}
             missing == StaticTags(cfg.AddTagsIfMissing)
             override == StaticTags(cfg.AddTagsOverride)
         IN /\ \A i \in DOMAIN embedded :
                 embedded[i][1] \notin DOMAIN override
                   => TokensOf(encOut'.output, embedded[i][1])
                        = {embedded[i][1] \o StrEq \o embedded[i][2].str}
            /\ \A k \in DOMAIN missing :
                 (k \in earlier /\ k \notin DOMAIN override)
                   => \A t \in TokensOf(encOut'.output, k) :
                        \/ \E i \in DOMAIN embedded : t = k \o StrEq \o Sprint(embedded[i][2])
                        \/ \E i \in DOMAIN fromFields : t = k \o StrEq \o Sprint(fromFields[i][2])
            /\ \A k \in DOMAIN override :
                 TokensOf(encOut'.output, k) = {k \o StrEq \o override[k].str}
    ]_vars

\* C25: with dedupe off, an Encode call on the message of the call before it
\* returns the bytes that call returned.
C25_SameBytes ==
  [][ ( /\ IsEncodeCall
        /\ encCalls >= 1
        /\ encCfg.DedupeFlush = 0
        /\ encMsg' = encMsg )
      => encOut' = encOut
    ]_vars

\* the payload as Decode cuts it: without newlines at its ends and one "put "
Stripped(p) == TrimPrefix(TrimNewlines(p), StrPut)

\* the line has three tokens or more, an integer timestamp, a numeric value
\* and a "=" in every tag
WellFormedLine(l) ==
  LET tokens == StringsFields(l)
  IN /\ Len(tokens) >= 3
     /\ IsInt(tokens[2])
     /\ IsInt(tokens[3]) \/ IsFloat(tokens[3])
     /\ \A i \in 4..Len(tokens) : \E j \in DOMAIN tokens[i] : tokens[i][j] = 61

\* C26: Decode rejects a line of more than 1024 bytes and accepts a
\* well-formed line of 1024 bytes or fewer.
C26_LengthBound ==
  decoded.status # "none"
    => /\ Len(Stripped(line)) > 1024 => decoded.status = "error"
       /\ (Len(Stripped(line)) <= 1024 /\ WellFormedLine(Stripped(line)))
            => decoded.status = "ok"

\* C27: Decode returns one record or an error and never faults; it returns an
\* error for fewer than 3 tokens, a timestamp that is no integer, a value that
\* is no number and a tag without "=".
C27_ErrorOutcomes ==
  decoded.status # "none"
    => LET tokens == StringsFields(Stripped(line))
       IN /\ decoded.status \in {"ok", "error"}
          /\ ( \/ Len(tokens) < 3
               \/ ~IsInt(tokens[2])
               \/ ~IsInt(tokens[3]) /\ ~IsFloat(tokens[3])
               \/ \E i \in 4..Len(tokens) : \A j \in DOMAIN tokens[i] : tokens[i][j] # 61 )
               => decoded.status = "error"

\* C28: the line the encoder returns for a message with a whole-second
\* Timestamp, a metric name without embedded tags, an integer value and string
\* tag fields that all carry the tagname_prefix decodes, under the same
\* tagname_prefix, to the Timestamp and the fields of the message.
C28_RoundTrip ==
  ( /\ decoded.status # "none"
    /\ encCfg.DedupeFlush = 0
    /\ encCfg.FieldsToTags
    /\ encCfg.AddTagsIfMissing = <<>> /\ encCfg.AddTagsOverride = <<>>
    /\ ~LacksField(encMsg)
    /\ encMsg.Timestamp % TicksPerSec = 0
    /\ Len(MetricParts(encCfg, FieldValue(encMsg, StrMetric).str)) = 1
    /\ \A i \in DOMAIN encMsg.Fields :
         \/ encMsg.Fields[i].name \in {StrMetric, StrValue}
         \/ HasPrefix(encMsg.Fields[i].name, encCfg.TagNamePrefix) )
  => /\ decoded.status = "ok"
     /\ decoded.record.Timestamp = encMsg.Timestamp
     /\ Range(decoded.record.Fields) = Range(encMsg.Fields)

\* C29: an Encode call on a message without Fields[Metric] or Fields[Value]
\* returns an error and no bytes and leaves the dedupe buffer as it was.
C29_MissingField ==
  [][ (IsEncodeCall /\ LacksField(encMsg'))
      => /\ encOut'.err
         /\ encOut'.output = <<>>
         /\ dedupeBuffer' = dedupeBuffer
    ]_vars

\* a message without Value was refused while the dedupe buffer held a line
C29_Witness ==
  /\ encCalls > 1
  /\ encOut.err
  /\ \E i \in DOMAIN encMsg.Fields : encMsg.Fields[i].name = StrMetric
  /\ dedupeBuffer # EmptyMap

\* C30: with fields_to_tags, no tag of the payload the Lua encoder injects is
\* named by metric_field or value_field.
C30_NoMetricValueTags ==
  (encCalls > 0 /\ luaCfg.fields_to_tags /\ ~encOut.err)
    => LET tokens == StringsFields(encOut.output)
       IN \A i \in 4..Len(tokens) :
            /\ ~HasPrefix(tokens[i], luaCfg.metric_field \o StrEq)
            /\ ~HasPrefix(tokens[i], luaCfg.value_field \o StrEq)

\* ------------------------------------------------ HTTP encoder properties

\* the step is an HTTP encoder call, and one that accepted its message
IsHttpCall == httpCalls' = httpCalls + 1
HttpAccepts == IsHttpCall /\ Len(httpAccepted') = Len(httpAccepted) + 1

\* C31: with flush_count = N > 0 and flush_delta = 0 a call returns 0 and
\* injects a payload exactly when it accepts the N-th message since the last
\* payload; the payload holds those N messages in arrival order and the
\* buffer is empty afterwards; every other accepting call returns -2 and
\* injects nothing; the payloads so far and the buffer together are the
\* accepted messages, each once, in order.
C31_Buffering ==
  [][ (IsHttpCall /\ httpCfg.flush_count > 0 /\ httpCfg.flush_delta = 0)
      => LET N == httpCfg.flush_count
             n == Len(httpAccepted')
         IN /\ HttpAccepts
                 => IF n % N = 0
                    THEN /\ httpOut' = [status |-> 0, payload |-> SubSeq(httpAccepted', n - N + 1, n)]
                         /\ httpBuffer' = <<>>
                    ELSE /\ httpOut' = [status |-> -2, payload |-> <<>>]
            /\ ~HttpAccepts => httpOut'.payload = <<>> /\ httpOut'.status = -1
            /\ httpSent' \o httpBuffer' = httpAccepted'
            /\ httpSent' = httpSent \o httpOut'.payload
    ]_vars

\* the second payload of two messages each was injected
C31_Witness ==
  /\ httpCfg.flush_count = 2
  /\ httpCfg.flush_delta = 0
  /\ Len(httpSent) = 4
  /\ httpOut.status = 0
  /\ httpOut.payload[1] # httpOut.payload[2]
  /\ httpBuffer = <<>>

\* ------------------------------------------- dedupe properties, continued

\* C32: a record is suppressed only if its key has state and the variant
\* fields of the record and of the stored state are the same fields with the
\* same values.
C32_EveryVariantCompared ==
  [][ (IsCall /\ dedupe_window > 0 /\ injected' = <<>>)
      => (HasState /\ buffer[key'].data = CurrentVariants) ]_vars

\* the elements of a sequence that carry the tag h
OfKey(seq, h) == SelectSeq(seq, LAMBDA x : x.Fields[FieldH] = h)

\* the messages generated for the records delivered so far
Ingested == [i \in 1..pos |-> NewMessage(tape[i])]

\* a is b with elements left out
RECURSIVE IsSubsequence(_, _)
IsSubsequence(a, b) ==
  IF a = <<>> THEN TRUE
  ELSE IF b = <<>> THEN FALSE
  ELSE IF Head(a) = Head(b) THEN IsSubsequence(Tail(a), Tail(b))
  ELSE IsSubsequence(a, Tail(b))

\* C34: for every key the messages injected so far are messages of ingested
\* records of that key, each injected at most once, in ingestion order; a call
\* injects at most 2 messages and no more are injected than were ingested.
C34_Subsequence ==
  /\ [](/\ \A h \in {Str1, Str2} : IsSubsequence(OfKey(emitted, h), OfKey(Ingested, h))
        /\ Len(emitted) <= pos)
  /\ [][ IsCall => Len(injected') <= 2 ]_vars

\* a withheld record was injected ahead of the record that ended its run
C34_Witness ==
  /\ pos = 3
  /\ Len(injected) = 2
  /\ emitted = <<NewMessage(tape[1])>> \o injected
  /\ injected = <<NewMessage(tape[2]), NewMessage(tape[3])>>

\* C35: for every tracked key, skipped holds exactly when the record last read
\* for the key was not injected, and the stored timestamp is the Timestamp of
\* the last record of the key that was injected by the call that read it.
C35_SkippedFlag ==
  \A k \in DOMAIN buffer :
    /\ k \in DOMAIN prev
    /\ buffer[k].message = prev[k].message
    /\ buffer[k].skipped = ~prev[k].emitted
    /\ buffer[k].timestamp = prev[k].lastEmitTs

\* one key holds a withheld record, another an injected one
C35_Witness ==
  /\ Cardinality(DOMAIN buffer) = 2
  /\ \E k \in DOMAIN buffer :
       buffer[k].skipped /\ buffer[k].message.Timestamp > buffer[k].timestamp
  /\ \E k \in DOMAIN buffer : ~buffer[k].skipped

\* the messages the filter injects for a stream of records of one key, st
\* being the stored state (NilMsg for none)
RECURSIVE Alone(_, _, _)
Alone(records, st, window) ==
  IF records = <<>> THEN <<>>
  ELSE LET r == Head(records)
           v == [n \in {FieldV} \cap DOMAIN r.Fields |-> r.Fields[n]]
           m == [Timestamp |-> r.Timestamp, Type |-> "dedupe", Fields |-> r.Fields]
       IN IF st # NilMsg /\ Suppress(st, v, r.Timestamp, window)
          THEN Alone(Tail(records), SuppressedEntry(st, m, v), window)
          ELSE (IF st # NilMsg /\ FlushPrevious(st, v, r.Timestamp, window)
                THEN <<st.message>> ELSE <<>>)
                 \o <<m>> \o Alone(Tail(records), EmittedEntry(m, v), window)

\* C36: a call leaves the stored state of every key but the record's own
\* unchanged, and the messages injected for a key in a stream of two keys
\* are those injected when the key's records are processed alone.
C36_KeysIndependent ==
  /\ [][ IsCall => \A k \in DOMAIN buffer : k # key' => buffer'[k] = buffer[k] ]_vars
  /\ [](\A h \in {Str1, Str2} :
          OfKey(emitted, h) = Alone(OfKey(SubSeq(tape, 1, pos), h), NilMsg, dedupe_window))

\* a record of another key arrived between a record and its withheld repeat
C36_Witness ==
  /\ pos = 3
  /\ tape[1].Fields = tape[3].Fields
  /\ tape[2].Fields[FieldH] # tape[1].Fields[FieldH]
  /\ injected = <<>>
  /\ Len(emitted) = 2
  /\ buffer[key].skipped

\* ---------------------------------------------------------------------------
\* aggregator properties, continued

\* the accumulator has the shape of the bucket's recorded kind: a list of
\* numbers for "ms", a set (every member mapped to true) for "s", a number
\* for the counter and gauge kinds
ShapeOfKind(b) ==
  CASE b.Modifier = "ms" ->
         /\ b.Value.isTable
         /\ DOMAIN b.Value.tab = 1..Cardinality(DOMAIN b.Value.tab)
         /\ \A k \in DOMAIN b.Value.tab : b.Value.tab[k].isNum
    [] b.Modifier = "s" ->
         /\ b.Value.isTable
         /\ \A k \in DOMAIN b.Value.tab : b.Value.tab[k] = LuaTrue
    [] OTHER -> ~b.Value.isTable

\* C37: after any sequence of process_message and timer_event calls, whenever
\* a flush can start every bucket's accumulator has the shape of its recorded
\* kind: a number for a counter or gauge, a sample list for a timer, a set
\* for a set
C37_ShapeOfKind ==
  sandbox = "running" => \A m \in DOMAIN buckets : ShapeOfKind(buckets[m])

\* ---------------------------------------------------------------------------
\* Go encoder properties, continued

\* the name with the first Len(prefix) bytes removed
WithoutPrefix(name, prefix) == SubSeq(name, Len(prefix) + 1, Len(name))

\* the tag names of a returned line
TagNames(bytes) == {SplitN2(t, StrEq)[1] : t \in TagTokens(bytes)}

\* C33: with fields_to_tags on, no configured tags and no tags embedded in the
\* metric name, the tag names of the line Encode returns are the names of the
\* message fields that start with tagname_prefix, each with exactly that
\* prefix removed once from its front and nothing else removed.
C33_PrefixRemovedOnce ==
  [][ ( /\ IsEncodeCall
        /\ encCfg.DedupeFlush = 0
        /\ encCfg.FieldsToTags
        /\ encCfg.AddTagsIfMissing = <<>> /\ encCfg.AddTagsOverride = <<>>
        /\ ~LacksField(encMsg')
        /\ Len(MetricParts(encCfg, FieldValue(encMsg', StrMetric).str)) = 1 )
      => TagNames(encOut'.output)
           = { WithoutPrefix(encMsg'.Fields[i].name, encCfg.TagNamePrefix) :
                 i \in { j \in DOMAIN encMsg'.Fields :
                           /\ HasPrefix(encMsg'.Fields[j].name, encCfg.TagNamePrefix)
                           /\ encMsg'.Fields[j].name \notin {StrMetric, StrValue} } }
    ]_vars

\* a <= b for two numbers in lowest terms
FLeq(a, b) == a.n * b.d <= b.n * a.d

\* every message of the set lows carries at most the value of every message
\* of the set highs
AllLeq(lows, highs) == \A l \in lows : \A h \in highs : FLeq(l.Value, h.Value)

\* C38: at a flush, for a Timer bucket whose records since its creation or
\* last reset were n >= 2 Timer records, the index of every percentile p with
\* 0 < p < 100 is at most n and does not fall as p grows, the percentile
\* messages of a configured p are injected exactly when its index is at least
\* 1, and the injected values satisfy lower <= upper_p <= upper,
\* sum_p <= sum, and upper_p1 <= upper_p2 for configured p1 <= p2.
C38_PercentileBounds ==
  [][ IsFlush =>
        \A m \in DOMAIN buckets :
           LET obs == ObsOf(m, SinceLastFlush(events))
               n == Len(obs)
           IN (buckets[m].Modifier = "ms" /\ n >= 2
                 /\ \A i \in DOMAIN obs : obs[i].modifier = "ms")
              => /\ \A p \in 1..99 : PercentileIndex(n, p) \in 0..n
                 /\ \A p \in 1..98 : PercentileIndex(n, p) <= PercentileIndex(n, p + 1)
                 /\ \A k \in DOMAIN percentiles :
                      LET p == percentiles[k]
                      IN /\ Injected(m, ".upper_", p) # {} <=> PercentileIndex(n, p) \in 1..n
                         /\ AllLeq(Injected(m, ".lower", 0), Injected(m, ".upper_", p))
                         /\ AllLeq(Injected(m, ".upper_", p), Injected(m, ".upper", 0))
                         /\ AllLeq(Injected(m, ".sum_", p), Injected(m, ".sum", 0))
                         /\ \A j \in DOMAIN percentiles :
                              percentiles[j] <= p
                                => AllLeq(Injected(m, ".upper_", percentiles[j]),
                                          Injected(m, ".upper_", p)) ]_vars

\* the flush of the samples 1..10 injected lower = 1, upper_50 = 5,
\* upper_99 = 10 = upper, sum_50 = 15 and sum = 55
C38_Witness ==
  /\ events = TenSamples
  /\ flushed.ran
  /\ \A want \in { <<".lower", 0, 1>>, <<".upper_", 50, 5>>, <<".upper_", 99, 10>>,
                   <<".upper", 0, 10>>, <<".sum_", 50, 15>>, <<".sum", 0, 55>> } :
        \E r \in flushed.records["a"] :
           r.Metric.stat = want[1] /\ r.Metric.pct = want[2] /\ r.Value = FInt(want[3])

\* the names of the accepted records so far
NamesSoFar == {events[i].metric : i \in {j \in DOMAIN events : Accepted(events[j])}}

\* the sum of every <name>.count value injected so far for the counter m
EmittedCount(m) == IF m \in DOMAIN counted THEN counted[m] ELSE FInt(0)

\* the sum the bucket of m holds now
PendingCount(m) == IF m \in DOMAIN buckets THEN buckets[m].Value.num ELSE FInt(0)

\* C39: after any interleaving of process_message and timer_event calls, the
\* zero-elapsed ones included, and under either send_idle_stats setting, for
\* a name whose accepted records were all Counter records the sum of all
\* <name>.count values injected so far plus the sum its bucket holds now equals
\* the sum of value * (1/sampleRate) over all accepted records of the name.
C39_Conservation ==
  sandbox = "running" =>
    \A m \in NamesSoFar :
       (\A i \in DOMAIN AllObsOf(m) : AllObsOf(m)[i].modifier = "c")
         => EqualsRatio(FAdd(EmittedCount(m), PendingCount(m)),
                        SampledSum(AllObsOf(m)).num, SampledSum(AllObsOf(m)).den)

\* a sampled counter record, a timer_event with zero elapsed time that injected
\* nothing, and a timer_event that injected the record's contribution and
\* left the sum at 0
C39_Witness ==
  /\ send_idle
  /\ Len(events) = 3
  /\ Accepted(events[1]) /\ events[1].modifier = "c" /\ events[1].sampling # FInt(1)
  /\ events[2].type = "flush" /\ ~NonZeroFlush(events, 2)
  /\ NonZeroFlush(events, 3)
  /\ EmittedCount(events[1].metric) = Contribution(events[1].value, events[1].sampling)
  /\ events[1].metric \in DOMAIN buckets
  /\ PendingCount(events[1].metric) = FInt(0)

\* C40: with dedupe_window > 0, an Encode call on a message with the Metric,
\* the fields and the Value of the message of the call before it, that call
\* having stored its datapoint under the message's own Timestamp and this one
\* coming less than dedupe_window later, finds the stored datapoint under its
\* dedupe key: it returns no output and adds no key to the dedupe buffer.
C40_StableKey ==
  [][ ( /\ IsEncodeCall
        /\ encCalls >= 1
        /\ encCfg.DedupeFlush > 0
        /\ ~LacksField(encMsg)
        /\ encOut.output # <<>>
        /\ \E k \in DOMAIN dedupeBuffer :
              dedupeBuffer[k].ts = encMsg.Timestamp /\ ~dedupeBuffer[k].skipped
        /\ encMsg'.Fields = encMsg.Fields
        /\ encMsg'.Hostname = encMsg.Hostname
        /\ encMsg'.Timestamp >= encMsg.Timestamp
        /\ encMsg'.Timestamp - encMsg.Timestamp < encCfg.DedupeFlush * TicksPerSec )
      => /\ encOut'.output = <<>>
         /\ ~encOut'.err
         /\ DOMAIN dedupeBuffer' = DOMAIN dedupeBuffer
    ]_vars

====
